---- MODULE Spec2Model ----
(***************************************************************************)
(* Model of the Rig Veda chat pipeline (chat_bot/llm_handler.py) and of    *)
(* the process-wide vector resource singleton it shares                    *)
(* (EmbeddingResources; SearchResources in semantic_search/routes.py has   *)
(* the same __new__/__init__ structure).                                   *)
(***************************************************************************)
EXTENDS Integers, Sequences, FiniteSets, TLC

(* ------------------------------ bounds -------------------------------- *)
NThreads == 2      \* threads that call the resource constructor concurrently
MaxCalls == 2      \* constructor calls per thread
MaxIndex == 4      \* largest ANN index / mapping file on disk
MaxIntents == 2    \* longest classified intent list
MaxCoord == 3      \* largest mandala, hymn or sloka number given to sloka_search
MaxText == 6       \* longest response text, in tokens
MaxTime == 3       \* the clock runs from 0 to MaxTime
RLMax == 2         \* max_requests of the RateLimiter
RLWindow == 2      \* time_window of the RateLimiter, in clock ticks
SessTimeout == 1   \* session_timeout of the SessionManager, in clock ticks
AudioLen == 2      \* chunks of one audio file
MaxCount == 1      \* update_session is not called for a session with MaxCount updates applied

Threads == 1..NThreads
\* the thread that imports the module and serves get_answer
Runner == CHOOSE t \in Threads : \A u \in Threads : t <= u

(* top_k: semantic_search_slokas calls get_top_slokas(query, k=2) *)
TopK == 2

VARIABLES
  (* class attributes and instance attributes of the singleton *)
  instance,      \* cls._instance is not None
  hasAttr,       \* the instance has an _initialized attribute
  initialized,   \* value of instance._initialized
  lock,          \* holder of cls._lock, 0 when free
  resModel,      \* self.model is set
  resIndex,      \* ntotal of self.index, -1 while unset
  resMap,        \* len(self.slokas_list), -1 while unset
  (* artifacts on disk, read by the load *)
  diskIndex,     \* ntotal of the index file, -1 when the file is missing
  diskMap,       \* length of the mapping file, -1 when the file is missing
  neighbors,     \* what index.search returns for the query (positions)
  (* instrumentation of the load *)
  loadCount,     \* loads that ran to completion
  loadAttempts,  \* loads that were started
  loadFailures,  \* loads that raised
  (* per thread *)
  pc, ret, calls, ctorRes,
  (* process configuration *)
  apiKey,        \* API_KEY (gem_api_key) is set
  (* per pipeline run (get_answer locals and its observable effects) *)
  stage,         \* the controller state of the run
  query,         \* user_query
  intents,       \* intents_list
  cursor,        \* position of the running retrieval loop in intents_list
  evidence,      \* slokas_with_meaning
  origin,        \* for each evidence item, the position of the intent it came from
  context,       \* final_context
  answer,        \* final_answer
  outcome,       \* what get_answer gave its caller: an envelope or an exception
  logs,          \* calls of logger.log_chat_bot_interaction, in order
  clsCalls,      \* requests.post calls of extract_intents_gemini
  clsReply,      \* what the classification call gave (the error, or the parsed JSON)
  genCalls,      \* requests.post calls of generate_llm_answer
  lookups,       \* sloka_search calls made for fetch_by_location intents
  searches,      \* index.search calls
  (* a call of sloka_search on its own *)
  arg,           \* the (mandala, hymn, sloka) passed
  result,        \* what the call gave
  (* one HTTP request to POST /api/chat/intent (middleware/auth.py, chat_bot/routes.py) *)
  srvKey,        \* os.getenv('API_KEY')
  hdrKey,        \* request.headers.get('X-API-Key')
  reqQuery,      \* the "query" of the JSON body, None when the body has none
  reqPc,         \* where the request is: "recv", "handler", "sent", or "off"
  invoked,       \* the wrapped handler chat_intent was called
  resp,          \* the HTTP status of the response, 0 while there is none
  (* the text of a generation-service response and what the two parsers make of it *)
  text,          \* generated_text, as a sequence of tokens
  clsParsed,     \* what extract_intents_gemini makes of it
  genParsed,     \* what generate_llm_answer makes of it
  (* one RateLimiter and the threads that call is_allowed (utils/session_utils.py) *)
  now,           \* what datetime.now() returns
  history,       \* self.request_history: session id -> timestamps
  rlLock,        \* holder of self._lock, 0 when free
  rlPc,          \* per thread: where it is in is_allowed
  rlSid,         \* per thread: the session_id argument
  rlNow,         \* per thread: current_time of its running is_allowed
  rlRet,         \* per thread: what its last finished call returned
  grants,        \* session id -> time -> number of calls that returned True with that current_time
  maxReq,        \* self.max_requests
  seen,          \* the keys of self.request_history
  rlRem,         \* per thread: what its last get_remaining_requests returned
  (* the SessionManager and the threads that call its methods (utils/session_utils.py) *)
  store,         \* self.sessions: session id -> the session, or Absent
  smLock,        \* holder of SessionManager._lock, 0 when free
  smPc,          \* per thread: where it is in its call
  smCall,        \* per thread: the method called and its arguments
  smTmp,         \* per thread: the request_count read by += 1
  smRet,         \* per thread: what its last finished call returned
  applied,       \* session id -> update_session calls applied since it was created
  overwritten,   \* session id -> one of them carried the key 'request_count'
  lapsed,        \* session id -> get_session found it expired, and it was not created since
  (* the audio cache and the requests to /api/audio (sloka_explorer/routes.py) *)
  audioCache,    \* verse -> the cache file: NoFile, or the set of its chunks that are written
  auPc,          \* per thread: where its get_audio call is
  auVerse,       \* per thread: the (mandala, hymn, stanza) of its request
  auResp,        \* per thread: what requests.get gave: 0 for none yet, a status, or "error"
  auOff,         \* per thread: chunks its f.write has written
  auOut,         \* per thread: the response of its last finished request
  auUp,          \* per thread: its request called requests.get
  auLate,        \* per thread: its request began after a fetch of the verse had been served
  fetched        \* verse -> a request has fetched, cached and served it

resVars == <<instance, hasAttr, initialized, lock, resModel, resIndex, resMap,
             loadCount, loadAttempts, loadFailures>>
envVars == <<diskIndex, diskMap, neighbors, apiKey>>
thrVars == <<pc, ret, calls, ctorRes>>
runVars == <<stage, query, intents, cursor, evidence, origin, context, answer,
             outcome, logs, clsCalls, clsReply, genCalls, lookups, searches>>
fnVars == <<arg, result>>
authVars == <<srvKey, hdrKey, reqQuery, reqPc, invoked, resp>>
textVars == <<text, clsParsed, genParsed>>
rateVars == <<now, history, rlLock, rlPc, rlSid, rlNow, rlRet, grants, maxReq, seen, rlRem>>
sessVars == <<store, smLock, smPc, smCall, smTmp, smRet, applied, overwritten, lapsed>>
audioVars == <<audioCache, auPc, auVerse, auResp, auOff, auOut, auUp, auLate, fetched>>
libVars == <<authVars, textVars, rateVars, sessVars, audioVars>>
vars == <<resVars, envVars, thrVars, runVars, fnVars, libVars>>

None == "None"

(* ------------------- EmbeddingResources (singleton) ------------------- *)

\* return from the constructor call to its caller, with result r
CtorReturn(t, r) ==
  /\ ctorRes' = [ctorRes EXCEPT ![t] = r]
  /\ pc' = [pc EXCEPT ![t] = ret[t]]

\* __new__: if cls._instance is None (outside the lock)
New_Check(t) ==
  /\ pc[t] = "new_check"
  /\ IF ~instance
       THEN pc' = [pc EXCEPT ![t] = "new_lock"]
       ELSE pc' = [pc EXCEPT ![t] = "init_check"]
  /\ UNCHANGED <<resVars, envVars, fnVars, libVars, ret, calls, ctorRes, runVars>>

\* __new__: with cls._lock
New_Lock(t) ==
  /\ pc[t] = "new_lock"
  /\ lock = 0
  /\ lock' = t
  /\ pc' = [pc EXCEPT ![t] = "new_locked"]
  /\ UNCHANGED <<instance, hasAttr, initialized, resModel, resIndex, resMap,
                 loadCount, loadAttempts, loadFailures,
                 envVars, fnVars, libVars, ret, calls, ctorRes, runVars>>

\* __new__: the confirming check inside the lock, and cls._instance = super().__new__(cls)
New_Locked(t) ==
  /\ pc[t] = "new_locked"
  /\ IF ~instance
       THEN /\ instance' = TRUE
            /\ pc' = [pc EXCEPT ![t] = "new_setflag"]
            /\ lock' = lock
       ELSE /\ instance' = instance
            /\ lock' = 0
            /\ pc' = [pc EXCEPT ![t] = "init_check"]
  /\ UNCHANGED <<hasAttr, initialized, resModel, resIndex, resMap,
                 loadCount, loadAttempts, loadFailures,
                 envVars, fnVars, libVars, ret, calls, ctorRes, runVars>>

\* __new__: cls._instance._initialized = False, then the lock is released
New_SetFlag(t) ==
  /\ pc[t] = "new_setflag"
  /\ hasAttr' = TRUE
  /\ initialized' = FALSE
  /\ lock' = 0
  /\ pc' = [pc EXCEPT ![t] = "init_check"]
  /\ UNCHANGED <<instance, resModel, resIndex, resMap,
                 loadCount, loadAttempts, loadFailures,
                 envVars, fnVars, libVars, ret, calls, ctorRes, runVars>>

\* the mutant of Init_Check: no return on self._initialized before the lock
Init_Check_NoFastPath(t) ==
  /\ pc[t] = "init_check"
  /\ IF ~hasAttr
       THEN CtorReturn(t, "AttributeError")
       ELSE /\ pc' = [pc EXCEPT ![t] = "init_lock"]
            /\ ctorRes' = ctorRes
  /\ UNCHANGED <<resVars, envVars, fnVars, libVars, ret, calls, runVars>>

\* __init__: if self._initialized: return  (outside the lock)
Init_Check(t) ==
  /\ pc[t] = "init_check"
  /\ IF ~hasAttr
       THEN CtorReturn(t, "AttributeError")
       ELSE IF initialized
              THEN CtorReturn(t, "ok")
              ELSE /\ pc' = [pc EXCEPT ![t] = "init_lock"]
                   /\ ctorRes' = ctorRes
  /\ UNCHANGED <<resVars, envVars, fnVars, libVars, ret, calls, runVars>>

\* __init__: with self._lock
Init_Lock(t) ==
  /\ pc[t] = "init_lock"
  /\ lock = 0
  /\ lock' = t
  /\ pc' = [pc EXCEPT ![t] = "init_locked"]
  /\ UNCHANGED <<instance, hasAttr, initialized, resModel, resIndex, resMap,
                 loadCount, loadAttempts, loadFailures,
                 envVars, fnVars, libVars, ret, calls, ctorRes, runVars>>

\* the mutant of Init_Locked: no confirming check inside the lock
Init_Locked_NoRecheck(t) ==
  /\ pc[t] = "init_locked"
  /\ pc' = [pc EXCEPT ![t] = "load"]
  /\ loadAttempts' = loadAttempts + 1
  /\ UNCHANGED <<instance, hasAttr, initialized, lock, resModel, resIndex, resMap,
                 loadCount, loadFailures,
                 envVars, fnVars, libVars, ret, calls, ctorRes, runVars>>

\* __init__: if not self._initialized (inside the lock): start the load
Init_Locked(t) ==
  /\ pc[t] = "init_locked"
  /\ IF ~initialized
       THEN /\ pc' = [pc EXCEPT ![t] = "load"]
            /\ loadAttempts' = loadAttempts + 1
            /\ UNCHANGED <<lock, ctorRes>>
       ELSE /\ lock' = 0
            /\ loadAttempts' = loadAttempts
            /\ CtorReturn(t, "ok")
  /\ UNCHANGED <<instance, hasAttr, initialized, resModel, resIndex, resMap,
                 loadCount, loadFailures,
                 envVars, fnVars, libVars, ret, calls, runVars>>

\* the mutant of Load: an exception of the load leaves the lock held
Load_KeepLock(t) ==
  /\ pc[t] = "load"
  /\ \E modelOk \in BOOLEAN :
       IF ~modelOk \/ diskIndex = -1 \/ diskMap = -1
         THEN /\ resModel' = (resModel \/ modelOk)
              /\ resIndex' = (IF modelOk /\ diskIndex # -1 THEN diskIndex ELSE resIndex)
              /\ UNCHANGED <<resMap, initialized, loadCount, lock>>
              /\ loadFailures' = loadFailures + 1
              /\ CtorReturn(t, "LoadError")
         ELSE /\ resModel' = TRUE
              /\ resIndex' = diskIndex
              /\ resMap' = diskMap
              /\ initialized' = TRUE
              /\ loadCount' = loadCount + 1
              /\ loadFailures' = loadFailures
              /\ lock' = 0
              /\ CtorReturn(t, "ok")
  /\ UNCHANGED <<instance, hasAttr, loadAttempts, envVars, fnVars, libVars, ret, calls, runVars>>

\* __init__: the load itself.  SentenceTransformer(...) may raise (download
\* or cache failure), faiss.read_index and open raise when the file is
\* missing.  The mapping length is not compared with the index size.  An
\* exception leaves the with-block (the lock is released) and the
\* constructor call; the attributes assigned so far stay.
Load(t) ==
  /\ pc[t] = "load"
  /\ lock' = 0
  /\ \E modelOk \in BOOLEAN :
       IF ~modelOk
         THEN /\ UNCHANGED <<resModel, resIndex, resMap, initialized, loadCount>>
              /\ loadFailures' = loadFailures + 1
              /\ CtorReturn(t, "LoadError")
         ELSE /\ resModel' = TRUE
              /\ IF diskIndex = -1
                   THEN /\ UNCHANGED <<resIndex, resMap, initialized, loadCount>>
                        /\ loadFailures' = loadFailures + 1
                        /\ CtorReturn(t, "LoadError")
                   ELSE /\ resIndex' = diskIndex
                        /\ IF diskMap = -1
                             THEN /\ UNCHANGED <<resMap, initialized, loadCount>>
                                  /\ loadFailures' = loadFailures + 1
                                  /\ CtorReturn(t, "LoadError")
                             ELSE /\ resMap' = diskMap
                                  /\ initialized' = TRUE
                                  /\ loadCount' = loadCount + 1
                                  /\ loadFailures' = loadFailures
                                  /\ CtorReturn(t, "ok")
  /\ UNCHANGED <<instance, hasAttr, loadAttempts, envVars, fnVars, libVars, ret, calls, runVars>>

Ctor(t) ==
  \/ New_Check(t)
  \/ New_Lock(t)
  \/ New_Locked(t)
  \/ New_SetFlag(t)
  \/ Init_Check(t)
  \/ Init_Lock(t)
  \/ Init_Locked(t)
  \/ Load(t)

\* a caller outside the pipeline constructs the resource:
\* _resources = EmbeddingResources()
CallCtor(t) ==
  /\ pc[t] = "idle"
  /\ calls[t] < MaxCalls
  /\ calls' = [calls EXCEPT ![t] = @ + 1]
  /\ ret' = [ret EXCEPT ![t] = "idle"]
  /\ ctorRes' = [ctorRes EXCEPT ![t] = None]
  /\ pc' = [pc EXCEPT ![t] = "new_check"]
  /\ UNCHANGED <<resVars, envVars, fnVars, libVars, runVars>>


(* ------------------------------ the corpus ----------------------------- *)

\* data/rig_veda_index.json: mandala -> hymn -> total_slokas
IndexMandalas == {1, 2}
IndexHymns(m) == IF m = 1 THEN {1} ELSE IF m = 2 THEN {1, 2} ELSE {}
TotalSlokas(m, h) ==
  CASE m = 1 /\ h = 1 -> 3
    [] m = 2 /\ h = 1 -> 1
    [] m = 2 /\ h = 2 -> 2
    [] OTHER -> 0

\* data/dataset/mandala_<m>.json: the stanzas on disk (stanza 3 of hymn 1.1
\* is within the recorded bounds and has no record)
StoredStanzas(m, h) ==
  CASE m = 1 /\ h = 1 -> {1, 2}
    [] m = 2 /\ h = 1 -> {1}
    [] m = 2 /\ h = 2 -> {1, 2}
    [] OTHER -> {}

Stanza(m, h, s) ==
  [location |-> <<m, h, s>>,
   sanskrit |-> <<"sanskrit", m, h, s>>,
   translation |-> <<"translation", m, h, s>>]

\* slokas_mapping.json: entry p of the mapping (mandala, hymn_number, sloka_number)
MapEntry(p) ==
  CASE p = 0 -> <<1, 1, 1>>
    [] p = 1 -> <<1, 1, 2>>
    [] p = 2 -> <<1, 1, 4>>
    [] OTHER -> <<1, 1, 3>>

(* ------------------------- coordinate resolution ----------------------- *)

\* the mutant of is_valid_number: the lower bound of the sloka number is not checked
is_valid_number_NoLowerBound(m, h, s) ==
  IF m \notin IndexMandalas THEN FALSE
  ELSE IF h \notin IndexHymns(m) THEN FALSE
  ELSE IF ~(s <= TotalSlokas(m, h)) THEN FALSE
  ELSE TRUE

is_valid_number(m, h, s) ==
  IF m \notin IndexMandalas THEN FALSE
  ELSE IF h \notin IndexHymns(m) THEN FALSE
  ELSE IF ~(1 <= s /\ s <= TotalSlokas(m, h)) THEN FALSE
  ELSE TRUE

\* get_sloka: abort(404) raises werkzeug's NotFound.  (The pipeline calls the
\* route function inside a request that already passed require_api_key, so
\* the decorator lets the call through.)
get_sloka(m, h, s) ==
  IF s \in StoredStanzas(m, h)
    THEN [kind |-> "response", json |-> Stanza(m, h, s)]
    ELSE [kind |-> "raise", exc |-> "NotFound"]

\* sloka_search: {"error": ...}, a list with the one record, or the exception
\* get_sloka raised
sloka_search(m, h, s) ==
  IF ~is_valid_number(m, h, s)
    THEN [kind |-> "error",
          error |-> <<"Invalid mandala, hymn, or sloka number", m, h, s>>]
    ELSE LET r == get_sloka(m, h, s)
         IN IF r.kind = "raise"
              THEN r
              ELSE [kind |-> "items",
                    items |-> <<[location |-> r.json.location,
                                 sanskrit |-> r.json.sanskrit,
                                 meaning |-> r.json.translation]>>]

(* ------------------------------- intents ------------------------------- *)

FetchIntent(m, h, s) ==
  [intent |-> "fetch_by_location", mandala |-> m, hymn |-> h, sloka |-> s,
   keywords |-> None, question |-> None]
SearchIntent(k) ==
  [intent |-> "semantic_search", mandala |-> 0, hymn |-> 0, sloka |-> 0,
   keywords |-> k, question |-> None]
AskIntent(q) ==
  [intent |-> "asking_question", mandala |-> 0, hymn |-> 0, sloka |-> 0,
   keywords |-> None, question |-> q]
TagIntent(tag) ==
  [intent |-> tag, mandala |-> 0, hymn |-> 0, sloka |-> 0,
   keywords |-> None, question |-> None]

\* the intent records the generation service may answer with
IntentUniverse ==
  { FetchIntent(1, 1, 1), FetchIntent(1, 1, 2), FetchIntent(1, 1, 3),
    FetchIntent(9, 1, 1), SearchIntent("agni"), AskIntent("q1"),
    TagIntent("other_question"), TagIntent("greeting") }

SeqsUpTo(S, n) == UNION { [1..k -> S] : k \in 0..n }
IntentLists == SeqsUpTo(IntentUniverse, MaxIntents)

HasTag(L, tag) == \E i \in 1..Len(L) : L[i].intent = tag
\* the first position >= c of L that holds an intent tagged tag, Len(L)+1 if none
NextTagged(L, c, tag) ==
  IF \E i \in c..Len(L) : L[i].intent = tag
    THEN CHOOSE i \in c..Len(L) :
           /\ L[i].intent = tag
           /\ \A j \in c..(i - 1) : L[j].intent # tag
    ELSE Len(L) + 1

(* --------------------------- semantic retrieval ------------------------ *)

\* what index.search(query, k) can return for an index of n vectors: k
\* positions, nearest first, distinct, padded with -1 when fewer are found
SearchResults(n) ==
  { r \in [1..TopK -> (-1)..(n - 1)] :
      /\ \A i, j \in 1..TopK : (i < j /\ r[i] # -1) => r[i] # r[j]
      /\ \A i, j \in 1..TopK : (i < j /\ r[i] = -1) => r[j] = -1 }

\* Python list indexing slokas_list[idx] on a list of length n: the position
\* read, or -1 for IndexError (a negative idx counts from the end)
PyIndex(n, idx) ==
  IF 0 <= idx /\ idx < n THEN idx
  ELSE IF idx < 0 /\ idx + n >= 0 THEN idx + n
  ELSE -1

\* get_top_slokas: the mapping entries of the neighbors, or IndexError
get_top_slokas(ns, mapLen) ==
  IF \E i \in 1..Len(ns) : PyIndex(mapLen, ns[i]) = -1
    THEN [kind |-> "raise", exc |-> "IndexError"]
    ELSE [kind |-> "tops",
          tops |-> [i \in 1..Len(ns) |-> MapEntry(PyIndex(mapLen, ns[i]))]]

\* the mutant of CollectMeanings: the items are gathered in reverse
RECURSIVE CollectMeanings_Reversed(_)
CollectMeanings_Reversed(tops) ==
  IF tops = <<>> THEN [kind |-> "items", items |-> <<>>]
  ELSE LET c == Head(tops)
           r == sloka_search(c[1], c[2], c[3])
           rest == CollectMeanings_Reversed(Tail(tops))
       IN IF r.kind = "raise" THEN r
          ELSE IF rest.kind = "raise" THEN rest
          ELSE IF r.kind = "error" THEN rest
          ELSE [kind |-> "items", items |-> rest.items \o r.items]

\* the loop of semantic_search_slokas over top_slokas: a neighbor whose
\* sloka_search result holds "error" is skipped, an exception propagates
RECURSIVE CollectMeanings(_)
CollectMeanings(tops) ==
  IF tops = <<>> THEN [kind |-> "items", items |-> <<>>]
  ELSE LET c == Head(tops)
           r == sloka_search(c[1], c[2], c[3])
           rest == CollectMeanings(Tail(tops))
       IN IF r.kind = "raise" THEN r
          ELSE IF rest.kind = "raise" THEN rest
          ELSE IF r.kind = "error" THEN rest
          ELSE [kind |-> "items", items |-> r.items \o rest.items]

semantic_search_slokas(ns, mapLen) ==
  LET top == get_top_slokas(ns, mapLen)
  IN IF top.kind = "raise" THEN top ELSE CollectMeanings(top.tops)

(* ------------------------------ get_answer ----------------------------- *)

NoValue == [kind |-> "none"]
EmptyContext == [kind |-> "empty"]

\* what requests.post to the log sink does: the record is accepted, an
\* error status comes back, or the call raises (unreachable, timeout)
Deliveries == {"accepted", "status", "raises"}

\* the mutant of log_to_logtail: the exception of requests.post is not caught
log_to_logtail_Uncaught(d) == IF d = "raises" THEN "raises" ELSE "None"

\* log_to_logtail, lines 55-94: the response is not looked at, an exception
\* is printed by the except clause; the call returns None
log_to_logtail(d) ==
  CASE d = "raises" -> "None"
    [] OTHER -> "None"

\* logger.log_chat_bot_interaction(user_query, final_context, intents_list,
\*                                 generated_answer, success, processing_time)
LogCall(t, ctx, ints, ans, ok) ==
  \E d \in Deliveries :
    logs' = [logs EXCEPT ![t] = Append(@,
              [user_query |-> query[t], final_context |-> ctx, intents_list |-> ints,
               generated_answer |-> ans, success |-> ok, processing_time |-> TRUE,
               delivery |-> d])]

\* return envelope
Return(t, envelope, st) ==
  /\ outcome' = [outcome EXCEPT ![t] = [kind |-> "return", envelope |-> envelope]]
  /\ stage' = [stage EXCEPT ![t] = st]
  /\ pc' = [pc EXCEPT ![t] = "done"]

\* an exception leaves get_answer
Raise(t, exc) ==
  /\ outcome' = [outcome EXCEPT ![t] = [kind |-> "raise", exc |-> exc]]
  /\ stage' = [stage EXCEPT ![t] = "Failed"]
  /\ pc' = [pc EXCEPT ![t] = "done"]

\* the return that follows a log call: reached when the log call returned
ReturnLogged(t, envelope, st) ==
  IF log_to_logtail(logs'[t][Len(logs'[t])].delivery) = "raises"
    THEN Raise(t, "RequestException")
    ELSE Return(t, envelope, st)

\* the mutant of FailureEnvelope: the error field is left out
FailureEnvelope_NoError(msg, err) == [Message |-> msg]

\* the failure returns of get_answer: {"Message": ..., "error": ...}
FailureEnvelope(msg, err) == [Message |-> msg, error |-> err]

\* the mutant of Extend: new items are put in front
Extend_Prepend(list, items) == items \o list

\* the mutant of Extend: the new items are added twice
Extend_Twice(list, items) == list \o items \o items

\* slokas_with_meaning.extend(meaning)
Extend(list, items) == list \o items

\* module import: _resources = EmbeddingResources()
Import(t) ==
  /\ pc[t] = "boot"
  /\ calls' = [calls EXCEPT ![t] = @ + 1]
  /\ ret' = [ret EXCEPT ![t] = "imported"]
  /\ ctorRes' = [ctorRes EXCEPT ![t] = None]
  /\ pc' = [pc EXCEPT ![t] = "new_check"]
  /\ UNCHANGED <<resVars, envVars, fnVars, libVars, runVars>>

\* an exception at import leaves the module unimported: get_answer does not exist
Imported(t) ==
  /\ pc[t] = "imported"
  /\ pc' = [pc EXCEPT ![t] = IF ctorRes[t] = "ok" THEN "idle" ELSE "dead"]
  /\ UNCHANGED <<resVars, envVars, fnVars, libVars, ret, calls, ctorRes, runVars>>

\* get_answer(user_query) is called
StartRun(t) ==
  /\ pc[t] = "idle"
  /\ stage[t] = None
  /\ \E q \in {"", "q"} : query' = [query EXCEPT ![t] = q]
  /\ stage' = [stage EXCEPT ![t] = "Start"]
  /\ pc' = [pc EXCEPT ![t] = "classify"]
  /\ UNCHANGED <<resVars, envVars, fnVars, libVars, ret, calls, ctorRes,
                 intents, cursor, evidence, origin, context, answer, outcome,
                 logs, clsCalls, clsReply, genCalls, lookups, searches>>

\* what requests.post + parsing give extract_intents_gemini
ClassifierReplies ==
  { [kind |-> "error", error |-> e] : e \in {"transport", "status", "parse"} }
    \cup { [kind |-> "intents", intents |-> L] : L \in IntentLists }
    \cup { [kind |-> "nonrecord"] }

\* the mutant of extract_intents_gemini: a failed call is answered with a
\* fallback intent (a semantic search) instead of the error
extract_intents_fallback(q, key, prompt, reply) ==
  IF q = "" THEN [res |-> [kind |-> "error", error |-> "Empty query"], called |-> FALSE]
  ELSE IF prompt = "missing"
    THEN [res |-> [kind |-> "raise", exc |-> "FileNotFoundError"], called |-> FALSE]
  ELSE IF ~key \/ prompt = "empty"
    THEN [res |-> [kind |-> "error", error |-> "Gemini API key or prompt not set."],
          called |-> FALSE]
  ELSE IF reply.kind = "error"
    THEN [res |-> [kind |-> "intents", intents |-> <<SearchIntent("agni")>>], called |-> TRUE]
  ELSE [res |-> reply, called |-> TRUE]

\* the mutant of extract_intents_gemini: no check of the query before the call
extract_intents_unchecked(q, key, prompt, reply) ==
  IF prompt = "missing"
    THEN [res |-> [kind |-> "raise", exc |-> "FileNotFoundError"], called |-> FALSE]
  ELSE IF ~key \/ prompt = "empty"
    THEN [res |-> [kind |-> "error", error |-> "Gemini API key or prompt not set."],
          called |-> FALSE]
  ELSE [res |-> reply, called |-> TRUE]

\* the mutant of extract_intents_gemini: the API key is not checked before the call
extract_intents_keyless(q, key, prompt, reply) ==
  IF q = "" THEN [res |-> [kind |-> "error", error |-> "Empty query"], called |-> FALSE]
  ELSE IF prompt = "missing"
    THEN [res |-> [kind |-> "raise", exc |-> "FileNotFoundError"], called |-> FALSE]
  ELSE IF prompt = "empty"
    THEN [res |-> [kind |-> "error", error |-> "Gemini API key or prompt not set."],
          called |-> FALSE]
  ELSE [res |-> reply, called |-> TRUE]

\* extract_intents_gemini(user_query), given the API key, the prompt file and
\* what the service answers: res is what it gives get_answer (a record with
\* "error", the parsed JSON, or the exception of open), called tells whether
\* requests.post was called
extract_intents_gemini(q, key, prompt, reply) ==
  IF q = "" THEN [res |-> [kind |-> "error", error |-> "Empty query"], called |-> FALSE]
  ELSE IF prompt = "missing"
    THEN [res |-> [kind |-> "raise", exc |-> "FileNotFoundError"], called |-> FALSE]
  ELSE IF ~key \/ prompt = "empty"
    THEN [res |-> [kind |-> "error", error |-> "Gemini API key or prompt not set."],
          called |-> FALSE]
  ELSE [res |-> reply, called |-> TRUE]

\* lines 61-91 of get_answer: intents = extract_intents_gemini(user_query),
\* the "error" check and intents_list
Classify(t) ==
  /\ pc[t] = "classify"
  /\ \E prompt \in {"missing", "empty", "ok"} :
     \E reply \in ClassifierReplies :
       LET x == extract_intents_gemini(query[t], apiKey, prompt, reply)
           res == x.res
       IN /\ clsCalls' = [clsCalls EXCEPT ![t] = IF x.called THEN @ + 1 ELSE @]
          /\ clsReply' = [clsReply EXCEPT ![t] = IF x.called THEN reply ELSE @]
          /\ CASE res.kind = "error" ->
                    /\ LogCall(t, EmptyContext, <<>>, NoValue, FALSE)
                    /\ ReturnLogged(t, FailureEnvelope("Error in intent extraction", res.error), "Failed")
                    /\ UNCHANGED intents
               [] res.kind = "raise" ->
                    /\ Raise(t, res.exc)
                    /\ UNCHANGED <<logs, intents>>
               [] res.kind = "nonrecord" ->
                    /\ Raise(t, "AttributeError")
                    /\ UNCHANGED <<logs, intents>>
               [] res.kind = "intents" ->
                    /\ intents' = [intents EXCEPT ![t] = res.intents]
                    /\ stage' = [stage EXCEPT ![t] = "Classified"]
                    /\ pc' = [pc EXCEPT ![t] = "check_other"]
                    /\ UNCHANGED <<logs, outcome>>
  /\ UNCHANGED <<resVars, envVars, fnVars, libVars, ret, calls, ctorRes,
                 query, cursor, evidence, origin, context, answer,
                 genCalls, lookups, searches>>

RejectionEnvelope ==
  [Message |-> "Sorry, I can only answer questions related to the Rig Veda.",
   error |-> "unrelated question"]

\* the mutant of CheckOther: only the first intent is examined
CheckOther_FirstOnly(t) ==
  /\ pc[t] = "check_other"
  /\ IF intents[t] # <<>> /\ intents[t][1].intent = "other_question"
       THEN /\ LogCall(t, [kind |-> "intent_only", intents |-> intents[t]],
                       intents[t], NoValue, FALSE)
            /\ Return(t, RejectionEnvelope, "Rejected")
            /\ UNCHANGED cursor
       ELSE /\ pc' = [pc EXCEPT ![t] = "fetch"]
            /\ cursor' = [cursor EXCEPT ![t] = 1]
            /\ UNCHANGED <<logs, outcome, stage>>
  /\ UNCHANGED <<resVars, envVars, fnVars, libVars, ret, calls, ctorRes,
                 query, intents, evidence, origin, context, answer,
                 clsCalls, clsReply, genCalls, lookups, searches>>

\* the mutant of CheckOther: the rejection is logged and recorded, and the
\* function goes on to the retrieval loops instead of returning
CheckOther_NoReturn(t) ==
  /\ pc[t] = "check_other"
  /\ IF HasTag(intents[t], "other_question")
       THEN /\ LogCall(t, [kind |-> "intent_only", intents |-> intents[t]],
                       intents[t], NoValue, FALSE)
            /\ outcome' = [outcome EXCEPT ![t] =
                             [kind |-> "return", envelope |-> RejectionEnvelope]]
            /\ stage' = [stage EXCEPT ![t] = "Rejected"]
       ELSE UNCHANGED <<logs, outcome, stage>>
  /\ pc' = [pc EXCEPT ![t] = "fetch"]
  /\ cursor' = [cursor EXCEPT ![t] = 1]
  /\ UNCHANGED <<resVars, envVars, fnVars, libVars, ret, calls, ctorRes,
                 query, intents, evidence, origin, context, answer,
                 clsCalls, clsReply, genCalls, lookups, searches>>

\* Step 2 of get_answer: the loop that looks for an other_question intent
CheckOther(t) ==
  /\ pc[t] = "check_other"
  /\ IF HasTag(intents[t], "other_question")
       THEN /\ LogCall(t, [kind |-> "intent_only", intents |-> intents[t]],
                       intents[t], NoValue, FALSE)
            /\ ReturnLogged(t, RejectionEnvelope, "Rejected")
            /\ UNCHANGED cursor
       ELSE /\ pc' = [pc EXCEPT ![t] = "fetch"]
            /\ cursor' = [cursor EXCEPT ![t] = 1]
            /\ UNCHANGED <<logs, outcome, stage>>
  /\ UNCHANGED <<resVars, envVars, fnVars, libVars, ret, calls, ctorRes,
                 query, intents, evidence, origin, context, answer,
                 clsCalls, clsReply, genCalls, lookups, searches>>

\* the mutant of FetchByLocation: a failed lookup is skipped and the loop goes on
FetchByLocation_Continue(t) ==
  /\ pc[t] = "fetch"
  /\ LET L == intents[t]
         i == NextTagged(L, cursor[t], "fetch_by_location")
     IN IF i > Len(L)
          THEN /\ pc' = [pc EXCEPT ![t] = "search"]
               /\ cursor' = [cursor EXCEPT ![t] = 1]
               /\ UNCHANGED <<evidence, origin, outcome, stage, lookups>>
          ELSE LET meaning == sloka_search(L[i].mandala, L[i].hymn, L[i].sloka)
               IN /\ lookups' = [lookups EXCEPT ![t] = @ + 1]
                  /\ cursor' = [cursor EXCEPT ![t] = i + 1]
                  /\ UNCHANGED <<pc, outcome, stage>>
                  /\ IF meaning.kind = "items"
                       THEN /\ evidence' = [evidence EXCEPT ![t] = Extend(@, meaning.items)]
                            /\ origin' = [origin EXCEPT ![t] =
                                            Extend(@, [k \in 1..Len(meaning.items) |-> i])]
                       ELSE UNCHANGED <<evidence, origin>>
  /\ UNCHANGED <<resVars, envVars, fnVars, libVars, ret, calls, ctorRes,
                 query, intents, context, answer, logs, clsCalls, clsReply, genCalls, searches>>

\* Step 3 of get_answer: one pass of the fetch_by_location loop (the next
\* fetch_by_location intent, or the end of the loop)
FetchByLocation(t) ==
  /\ pc[t] = "fetch"
  /\ LET L == intents[t]
         i == NextTagged(L, cursor[t], "fetch_by_location")
     IN IF i > Len(L)
          THEN /\ pc' = [pc EXCEPT ![t] = "search"]
               /\ cursor' = [cursor EXCEPT ![t] = 1]
               /\ UNCHANGED <<evidence, origin, outcome, stage, lookups>>
          ELSE LET meaning == sloka_search(L[i].mandala, L[i].hymn, L[i].sloka)
               IN /\ lookups' = [lookups EXCEPT ![t] = @ + 1]
                  /\ cursor' = [cursor EXCEPT ![t] = i + 1]
                  /\ CASE meaning.kind = "raise" ->
                            /\ Raise(t, meaning.exc)
                            /\ UNCHANGED <<evidence, origin>>
                       [] meaning.kind = "error" ->
                            \* returns without calling the logger
                            /\ Return(t, FailureEnvelope("Error fetching sloka", meaning.error),
                                      "Failed")
                            /\ UNCHANGED <<evidence, origin>>
                       [] meaning.kind = "items" ->
                            /\ evidence' = [evidence EXCEPT ![t] = Extend(@, meaning.items)]
                            /\ origin' = [origin EXCEPT ![t] =
                                            Extend(@, [k \in 1..Len(meaning.items) |-> i])]
                            /\ UNCHANGED <<pc, outcome, stage>>
  /\ UNCHANGED <<resVars, envVars, fnVars, libVars, ret, calls, ctorRes,
                 query, intents, context, answer, logs, clsCalls, clsReply, genCalls, searches>>

\* Step 4 of get_answer: the next semantic_search intent, or the end of the
\* loop; semantic_search_slokas begins with resources = EmbeddingResources()
SemanticSearch(t) ==
  /\ pc[t] = "search"
  /\ LET L == intents[t]
         i == NextTagged(L, cursor[t], "semantic_search")
     IN IF i > Len(L)
          THEN /\ pc' = [pc EXCEPT ![t] = "assemble"]
               /\ stage' = [stage EXCEPT ![t] = "Retrieved"]
               /\ UNCHANGED <<cursor, ret, calls, ctorRes>>
          ELSE /\ cursor' = [cursor EXCEPT ![t] = i]
               /\ calls' = [calls EXCEPT ![t] = @ + 1]
               /\ ret' = [ret EXCEPT ![t] = "search_run"]
               /\ ctorRes' = [ctorRes EXCEPT ![t] = None]
               /\ pc' = [pc EXCEPT ![t] = "new_check"]
               /\ UNCHANGED stage
  /\ UNCHANGED <<resVars, envVars, fnVars, libVars, query, intents, evidence, origin, context, answer,
                 outcome, logs, clsCalls, clsReply, genCalls, lookups, searches>>

\* semantic_search_slokas after the constructor call: get_top_slokas(query, k=2)
\* and the loop over top_slokas.  index.search is a function of the index and
\* the query: its result is fixed the first time it is observed.
SemanticSearchRun(t) ==
  /\ pc[t] = "search_run"
  /\ IF ctorRes[t] # "ok"
       THEN /\ Raise(t, ctorRes[t])
            /\ UNCHANGED <<neighbors, searches, evidence, origin, cursor>>
       ELSE \E ns \in SearchResults(resIndex) :
              /\ neighbors \in {<<>>, ns}
              /\ neighbors' = ns
              /\ searches' = [searches EXCEPT ![t] = @ + 1]
              /\ LET meaning == semantic_search_slokas(ns, resMap)
                 IN IF meaning.kind = "raise"
                      THEN /\ Raise(t, meaning.exc)
                           /\ UNCHANGED <<evidence, origin, cursor>>
                      ELSE /\ evidence' = [evidence EXCEPT ![t] = Extend(@, meaning.items)]
                           /\ origin' = [origin EXCEPT ![t] =
                                           Extend(@, [k \in 1..Len(meaning.items) |-> cursor[t]])]
                           /\ cursor' = [cursor EXCEPT ![t] = @ + 1]
                           /\ pc' = [pc EXCEPT ![t] = "search"]
                           /\ UNCHANGED <<outcome, stage>>
  /\ UNCHANGED <<resVars, diskIndex, diskMap, apiKey, fnVars, libVars, ret, calls, ctorRes,
                 query, intents, context, answer, logs, clsCalls, clsReply, genCalls, lookups>>

\* the select of a sequence, in order
RECURSIVE SelectQuestions(_)
SelectQuestions(L) ==
  IF L = <<>> THEN <<>>
  ELSE IF Head(L).intent = "asking_question"
         THEN <<Head(L).question>> \o SelectQuestions(Tail(L))
         ELSE SelectQuestions(Tail(L))

\* the mutant of FinalContext: the question block is added whether or not
\* there is a question
FinalContext_AlwaysBlock(L, ev) ==
  [kind |-> "full",
   text |-> <<[part |-> "intents", body |-> L]>>
              \o [k \in 1..Len(ev) |->
                    [part |-> "line", body |-> <<ev[k].sanskrit, ev[k].meaning>>]]
              \o <<[part |-> "questions", body |-> SelectQuestions(L)]>>]

\* final_context, as the parts the string is built from, in order:
\* "Intent Information: <intents_list> \n", one "<sanskrit> - <meaning>" line
\* per item, and "\n\nUser question: <questions>" when user_questions is not empty
FinalContext(L, ev) ==
  [kind |-> "full",
   text |-> <<[part |-> "intents", body |-> L]>>
              \o [k \in 1..Len(ev) |->
                    [part |-> "line", body |-> <<ev[k].sanskrit, ev[k].meaning>>]]
              \o (IF SelectQuestions(L) # <<>>
                    THEN <<[part |-> "questions", body |-> SelectQuestions(L)]>>
                    ELSE <<>>)]

\* the mutant of Assemble: the run waits at the assembly step
Assemble_Stall(t) ==
  /\ pc[t] = "assemble"
  /\ context' = [context EXCEPT ![t] = FinalContext(intents[t], evidence[t])]
  /\ stage' = [stage EXCEPT ![t] = "Assembled"]
  /\ UNCHANGED <<resVars, envVars, fnVars, libVars, pc, ret, calls, ctorRes,
                 query, intents, cursor, evidence, origin, answer, outcome,
                 logs, clsCalls, clsReply, genCalls, lookups, searches>>

\* Step 5 of get_answer
Assemble(t) ==
  /\ pc[t] = "assemble"
  /\ context' = [context EXCEPT ![t] = FinalContext(intents[t], evidence[t])]
  /\ stage' = [stage EXCEPT ![t] = "Assembled"]
  /\ pc' = [pc EXCEPT ![t] = "generate"]
  /\ UNCHANGED <<resVars, envVars, fnVars, libVars, ret, calls, ctorRes,
                 query, intents, cursor, evidence, origin, answer, outcome,
                 logs, clsCalls, clsReply, genCalls, lookups, searches>>

\* what requests.post + json.loads give generate_llm_answer: the exception
\* path returns {"error": str(e)}; json.loads may give a record or another
\* JSON value
GeneratorReplies ==
  { [kind |-> "error", error |-> e] : e \in {"transport", "status", "parse"} }
    \cup { [kind |-> "record", summary |-> "summary"], [kind |-> "number"] }

FallbackText == [kind |-> "text", text |-> "Sorry, I cannot provide an answer at this time."]

\* the mutant of Generate: a failed generation call is issued again
Generate_Retry(t) ==
  /\ pc[t] = "generate"
  /\ \E reply \in GeneratorReplies :
       /\ genCalls' = [genCalls EXCEPT ![t] = @ + 1]
       /\ IF reply.kind = "error"
            THEN UNCHANGED <<answer, stage, pc>>
            ELSE /\ answer' = [answer EXCEPT ![t] = reply]
                 /\ stage' = [stage EXCEPT ![t] = "Generated"]
                 /\ pc' = [pc EXCEPT ![t] = "finish"]
  /\ UNCHANGED <<resVars, envVars, fnVars, libVars, ret, calls, ctorRes,
                 query, intents, cursor, evidence, origin, context, outcome,
                 logs, clsCalls, clsReply, lookups, searches>>

\* the mutant of Generate: the class lock is held across the generation call
Generate_HoldingLock(t) ==
  /\ pc[t] = "generate"
  /\ IF lock # t
       THEN /\ lock = 0
            /\ lock' = t
            /\ UNCHANGED <<answer, stage, pc, genCalls, outcome>>
       ELSE \E reply \in GeneratorReplies :
              /\ lock' = 0
              /\ genCalls' = [genCalls EXCEPT ![t] = @ + 1]
              /\ answer' = [answer EXCEPT ![t] = reply]
              /\ stage' = [stage EXCEPT ![t] =
                             IF reply.kind = "error" THEN @ ELSE "Generated"]
              /\ pc' = [pc EXCEPT ![t] = "finish"]
              /\ UNCHANGED outcome
  /\ UNCHANGED <<instance, hasAttr, initialized, resModel, resIndex, resMap,
                 loadCount, loadAttempts, loadFailures,
                 envVars, fnVars, libVars, ret, calls, ctorRes,
                 query, intents, cursor, evidence, origin, context,
                 logs, clsCalls, clsReply, lookups, searches>>

\* Step 6 of get_answer: final_answer = generate_llm_answer(final_context, user_query)
Generate(t) ==
  /\ pc[t] = "generate"
  /\ \E prompt \in {"missing", "ok"} :
     \E reply \in GeneratorReplies :
       IF ~apiKey \/ context[t].kind = "empty"
         THEN /\ answer' = [answer EXCEPT ![t] = FallbackText]
              /\ stage' = [stage EXCEPT ![t] = "Generated"]
              /\ pc' = [pc EXCEPT ![t] = "finish"]
              /\ UNCHANGED <<genCalls, outcome>>
         ELSE IF prompt = "missing"
           THEN /\ Raise(t, "FileNotFoundError")
                /\ UNCHANGED <<answer, genCalls>>
           ELSE /\ genCalls' = [genCalls EXCEPT ![t] = @ + 1]
                /\ answer' = [answer EXCEPT ![t] = reply]
                /\ stage' = [stage EXCEPT ![t] =
                               IF reply.kind = "error" THEN @ ELSE "Generated"]
                /\ pc' = [pc EXCEPT ![t] = "finish"]
                /\ UNCHANGED outcome
  /\ UNCHANGED <<resVars, envVars, fnVars, libVars, ret, calls, ctorRes,
                 query, intents, cursor, evidence, origin, context,
                 logs, clsCalls, clsReply, lookups, searches>>

SuccessEnvelope(L, ev, ans) ==
  [Message |-> "Success", intents |-> L, slokas |-> ev, answer |-> ans]

\* the mutant of Finish: an answer that holds "error" is returned as a success
Finish_ErrorAsSuccess(t) ==
  /\ pc[t] = "finish"
  /\ IF answer[t].kind = "number"
       THEN /\ Raise(t, "TypeError")
            /\ UNCHANGED logs
       ELSE /\ LogCall(t, context[t], intents[t], answer[t], TRUE)
            /\ Return(t, [Message |-> "Success", intents |-> intents[t],
                          slokas |-> evidence[t], answer |-> answer[t]], "Done")
  /\ UNCHANGED <<resVars, envVars, fnVars, libVars, ret, calls, ctorRes,
                 query, intents, cursor, evidence, origin, context, answer,
                 clsCalls, clsReply, genCalls, lookups, searches>>

\* lines 150-164 of get_answer: "error" in final_answer, the log call, the envelope
Finish(t) ==
  /\ pc[t] = "finish"
  /\ CASE answer[t].kind = "number" ->
            \* "error" in <number> raises TypeError
            /\ Raise(t, "TypeError")
            /\ UNCHANGED logs
       [] answer[t].kind = "error" ->
            /\ LogCall(t, context[t], intents[t], answer[t], FALSE)
            /\ ReturnLogged(t, FailureEnvelope("Error in generating answer", answer[t].error),
                            "Failed")
       [] OTHER ->
            /\ LogCall(t, context[t], intents[t], answer[t], TRUE)
            /\ ReturnLogged(t, SuccessEnvelope(intents[t], evidence[t], answer[t]), "Done")
  /\ UNCHANGED <<resVars, envVars, fnVars, libVars, ret, calls, ctorRes,
                 query, intents, cursor, evidence, origin, context, answer,
                 clsCalls, clsReply, genCalls, lookups, searches>>

GetAnswer(t) ==
  \/ StartRun(t)
  \/ Classify(t)
  \/ CheckOther(t)
  \/ FetchByLocation(t)
  \/ SemanticSearch(t)
  \/ SemanticSearchRun(t)
  \/ Assemble(t)
  \/ Generate(t)
  \/ Finish(t)

(* ------------------------------ initial state -------------------------- *)

NoRun == [t \in Threads |-> None]

InitRes ==
  /\ instance = FALSE /\ hasAttr = FALSE /\ initialized = FALSE /\ lock = 0
  /\ resModel = FALSE /\ resIndex = -1 /\ resMap = -1
  /\ loadCount = 0 /\ loadAttempts = 0 /\ loadFailures = 0
  /\ ret = [t \in Threads |-> "idle"]
  /\ calls = [t \in Threads |-> 0]
  /\ ctorRes = [t \in Threads |-> None]

InitRun ==
  /\ stage = NoRun
  /\ query = NoRun
  /\ intents = [t \in Threads |-> <<>>]
  /\ cursor = [t \in Threads |-> 0]
  /\ evidence = [t \in Threads |-> <<>>]
  /\ origin = [t \in Threads |-> <<>>]
  /\ context = [t \in Threads |-> NoValue]
  /\ answer = [t \in Threads |-> NoValue]
  /\ outcome = [t \in Threads |-> NoValue]
  /\ logs = [t \in Threads |-> <<>>]
  /\ clsCalls = [t \in Threads |-> 0]
  /\ clsReply = [t \in Threads |-> NoValue]
  /\ genCalls = [t \in Threads |-> 0]
  /\ lookups = [t \in Threads |-> 0]
  /\ searches = [t \in Threads |-> 0]

\* the artifacts on disk: an index file of 1..MaxIndex vectors or none, a
\* mapping file of 0..MaxIndex entries or none
InitDisk ==
  /\ diskIndex \in {-1} \cup (1..MaxIndex)
  /\ diskMap \in {-1} \cup (0..MaxIndex)
  /\ neighbors = <<>>

\* no HTTP request at the route
InitAuthOff ==
  /\ srvKey = None /\ hdrKey = None /\ reqQuery = None
  /\ reqPc = "off" /\ invoked = FALSE /\ resp = 0

\* no response text being parsed
InitTextOff ==
  /\ text = <<>> /\ clsParsed = NoValue /\ genParsed = NoValue

\* the session ids requests come with
Sessions == {"s1", "s2"}

\* a RateLimiter(max_requests = m) just constructed, no call running
InitLimiter(m) ==
  /\ maxReq = m
  /\ seen = {}
  /\ rlRem = [t \in Threads |-> 0]
  /\ now = 0
  /\ history = [s \in Sessions |-> <<>>]
  /\ rlLock = 0
  /\ rlPc = [t \in Threads |-> "idle"]
  /\ rlSid = [t \in Threads |-> None]
  /\ rlNow = [t \in Threads |-> 0]
  /\ rlRet = [t \in Threads |-> None]
  /\ grants = [s \in Sessions |-> [x \in 0..MaxTime |-> 0]]

InitRate == InitLimiter(RLMax)

\* no entry of self.sessions for a session id
Absent == [present |-> FALSE, last_active |-> 0, request_count |-> 0]

\* a thread that is in no method of the SessionManager
NoCall == [op |-> "none", sid |-> None, data |-> "other"]

\* the SessionManager just constructed (lines 39-41), no call running
InitSess ==
  /\ store = [s \in Sessions |-> Absent]
  /\ smLock = 0
  /\ smPc = [t \in Threads |-> "idle"]
  /\ smCall = [t \in Threads |-> NoCall]
  /\ smTmp = [t \in Threads |-> 0]
  /\ smRet = [t \in Threads |-> [kind |-> "idle"]]
  /\ applied = [s \in Sessions |-> 0]
  /\ overwritten = [s \in Sessions |-> FALSE]
  /\ lapsed = [s \in Sessions |-> FALSE]

\* the verses audio is asked for
Verses == {"v1", "v2"}

\* os.path.exists(cache_file_path) is False
NoFile == {0}

\* the audio file upstream, as a set of chunks
Audio == 1..AudioLen

\* an empty cache directory (line 14), no request running
InitAudio ==
  /\ audioCache = [v \in Verses |-> NoFile]
  /\ auPc = [t \in Threads |-> "idle"]
  /\ auVerse = [t \in Threads |-> None]
  /\ auResp = [t \in Threads |-> "none"]
  /\ auOff = [t \in Threads |-> 0]
  /\ auOut = [t \in Threads |-> [status |-> 0]]
  /\ auUp = [t \in Threads |-> FALSE]
  /\ auLate = [t \in Threads |-> FALSE]
  /\ fetched = [v \in Verses |-> FALSE]

InitLibOff == InitAuthOff /\ InitTextOff /\ InitRate /\ InitSess /\ InitAudio

\* nothing that is checked on its own is running
InitFn ==
  /\ arg = <<0, 0, 0>>
  /\ result = NoValue
  /\ InitLibOff

\* the process: the module is imported (the resource is constructed), then
\* the runner thread serves get_answer
Init ==
  /\ InitRes
  /\ InitRun
  /\ InitDisk
  /\ InitFn
  /\ apiKey \in BOOLEAN
  /\ pc = [t \in Threads |-> IF t = Runner THEN "boot" ELSE "idle"]

Next == Import(Runner) \/ Imported(Runner) \/ Ctor(Runner) \/ GetAnswer(Runner)

Spec == Init /\ [][Next]_vars

\* the process under a scheduler that keeps running the serving thread: every
\* call the thread makes returns, and the thread takes its next step
SpecLive == Init /\ [][Next]_vars /\ WF_vars(Next)

\* the constructor under concurrent callers
InitCtor ==
  /\ InitRes
  /\ InitRun
  /\ InitDisk
  /\ InitFn
  /\ apiKey = TRUE
  /\ pc = [t \in Threads |-> "idle"]

NextCtor == \E t \in Threads : CallCtor(t) \/ Ctor(t)

SpecCtor == InitCtor /\ [][NextCtor]_vars

\* the same callers, each of them scheduled as long as it can take a step
SpecCtorLive == SpecCtor /\ \A t \in Threads : WF_vars(Ctor(t))

\* two requests served by two threads.  The module is imported and the
\* resource loaded (an index of two vectors, a mapping of two entries); the
\* other thread is inside a run of its own (a query
\* classified as no intent), at the generation call of line 147, which may
\* return late, fail, or never return.
Staller == CHOOSE t \in Threads : t # Runner

InitConc ==
  /\ instance = TRUE /\ hasAttr = TRUE /\ initialized = TRUE /\ lock = 0
  /\ resModel = TRUE /\ resIndex = 2 /\ resMap = 2
  /\ loadCount = 1 /\ loadAttempts = 1 /\ loadFailures = 0
  /\ diskIndex = 2 /\ diskMap = 2 /\ neighbors = <<>>
  /\ apiKey = TRUE
  /\ InitFn
  /\ ret = [t \in Threads |-> IF t = Runner THEN "imported" ELSE "idle"]
  /\ calls = [t \in Threads |-> IF t = Runner THEN 1 ELSE 0]
  /\ ctorRes = [t \in Threads |-> IF t = Runner THEN "ok" ELSE None]
  /\ pc = [t \in Threads |-> IF t = Staller THEN "generate" ELSE "idle"]
  /\ stage = [t \in Threads |-> IF t = Staller THEN "Assembled" ELSE None]
  /\ query = [t \in Threads |-> IF t = Staller THEN "q" ELSE None]
  /\ intents = [t \in Threads |-> <<>>]
  /\ cursor = [t \in Threads |-> IF t = Staller THEN 1 ELSE 0]
  /\ evidence = [t \in Threads |-> <<>>]
  /\ origin = [t \in Threads |-> <<>>]
  /\ context = [t \in Threads |-> IF t = Staller THEN FinalContext(<<>>, <<>>) ELSE NoValue]
  /\ answer = [t \in Threads |-> NoValue]
  /\ outcome = [t \in Threads |-> NoValue]
  /\ logs = [t \in Threads |-> <<>>]
  /\ clsCalls = [t \in Threads |-> IF t = Staller THEN 1 ELSE 0]
  /\ clsReply = [t \in Threads |->
                   IF t = Staller THEN [kind |-> "intents", intents |-> <<>>] ELSE NoValue]
  /\ genCalls = [t \in Threads |-> 0]
  /\ lookups = [t \in Threads |-> 0]
  /\ searches = [t \in Threads |-> 0]

\* the steps of the serving thread (its constructor calls find the resource
\* initialized: the two unlocked checks are all they execute)
RunnerStep == GetAnswer(Runner) \/ New_Check(Runner) \/ Init_Check(Runner)

\* the other request's generation call returns, and its run ends
StallerStep == Generate(Staller) \/ Finish(Staller)

NextConc == RunnerStep \/ StallerStep

\* the scheduler keeps running the serving thread; nothing makes the other
\* request's call return
SpecConc == InitConc /\ [][NextConc]_vars /\ WF_vars(RunnerStep)

\* sloka_search on its own: the coordinates a caller may pass
Coordinates == (0..MaxCoord) \X (0..MaxCoord) \X (0..MaxCoord)

InitResolve ==
  /\ InitRes
  /\ InitRun
  /\ diskIndex = -1 /\ diskMap = -1 /\ neighbors = <<>>
  /\ apiKey = TRUE
  /\ pc = [t \in Threads |-> "idle"]
  /\ arg \in Coordinates
  /\ result = NoValue
  /\ InitLibOff

\* meaning = sloka_search(mandala, hymn, sloka)
Resolve ==
  /\ result = NoValue
  /\ result' = sloka_search(arg[1], arg[2], arg[3])
  /\ UNCHANGED <<resVars, envVars, thrVars, runVars, libVars, arg>>

NextResolve == Resolve

SpecResolve == InitResolve /\ [][NextResolve]_vars

(* --------------------- require_api_key and chat_intent ----------------- *)

\* the pipeline and the resource untouched, for what is checked on its own
PipelineOff ==
  /\ InitRes
  /\ InitRun
  /\ diskIndex = -1 /\ diskMap = -1 /\ neighbors = <<>>
  /\ apiKey = TRUE
  /\ pc = [t \in Threads |-> "idle"]
  /\ arg = <<0, 0, 0>>
  /\ result = NoValue

\* the API keys a server may be configured with and a client may send
Keys == {"k1", "k2", "k3"}
KeyValues == {None, ""} \cup Keys

\* the mutant of decorated_function: the header is examined before the server key
decorated_function_HeaderFirst(valid, provided) ==
  IF provided \in {None, ""} THEN 401
  ELSE IF valid \in {None, ""} THEN 500
  ELSE IF provided # valid THEN 403
  ELSE 0

\* decorated_function of require_api_key: the status it answers with, or 0
\* when it calls the wrapped handler ("not x" holds of None and of "")
decorated_function(valid, provided) ==
  IF valid \in {None, ""} THEN 500
  ELSE IF provided \in {None, ""} THEN 401
  ELSE IF provided # valid THEN 403
  ELSE 0

\* a request arrives at the decorated route
RequireApiKey ==
  /\ reqPc = "recv"
  /\ LET r == decorated_function(srvKey, hdrKey)
     IN IF r = 0
          THEN /\ invoked' = TRUE
               /\ reqPc' = "handler"
               /\ resp' = resp
          ELSE /\ resp' = r
               /\ reqPc' = "sent"
               /\ invoked' = invoked
  /\ UNCHANGED <<resVars, envVars, thrVars, runVars, fnVars, textVars, rateVars, sessVars, audioVars, srvKey, hdrKey, reqQuery>>

\* chat_intent: 400 without query; otherwise jsonify(get_answer(query)), or
\* the 500 Flask answers when get_answer raises
ChatIntent ==
  /\ reqPc = "handler"
  /\ IF reqQuery \in {None, ""}
       THEN resp' = 400
       ELSE \E raised \in BOOLEAN : resp' = IF raised THEN 500 ELSE 200
  /\ reqPc' = "sent"
  /\ UNCHANGED <<resVars, envVars, thrVars, runVars, fnVars, textVars, rateVars, sessVars, audioVars, srvKey, hdrKey, reqQuery, invoked>>

InitAuth ==
  /\ PipelineOff
  /\ srvKey \in KeyValues
  /\ hdrKey \in KeyValues
  /\ reqQuery \in {None, "", "q"}
  /\ reqPc = "recv"
  /\ invoked = FALSE
  /\ resp = 0
  /\ InitTextOff
  /\ InitRate
  /\ InitSess
  /\ InitAudio

NextAuth == RequireApiKey \/ ChatIntent

SpecAuth == InitAuth /\ [][NextAuth]_vars

(* ----------------------- parsing of a response text ------------------- *)

\* a response text is a sequence of tokens: "fence" is a run of three
\* backticks, "json" the four letters of the type tag, "ws" a blank or a
\* newline, "rec" the text of one JSON object
Tokens == {"fence", "json", "ws", "rec"}
Texts == SeqsUpTo(Tokens, MaxText)

\* str.lstrip / str.rstrip / str.strip of the characters of one token
RECURSIVE LStrip(_, _)
LStrip(s, tok) == IF s # <<>> /\ Head(s) = tok THEN LStrip(Tail(s), tok) ELSE s
RECURSIVE RStrip(_, _)
RStrip(s, tok) ==
  IF s # <<>> /\ s[Len(s)] = tok THEN RStrip(SubSeq(s, 1, Len(s) - 1), tok) ELSE s
PyStrip(s, tok) == RStrip(LStrip(s, tok), tok)

\* json.loads: one JSON value with blanks around it, or an exception (which
\* the callers' except clause turns into {"error": str(e)})
json_loads(s) ==
  IF PyStrip(s, "ws") = <<"rec">>
    THEN [kind |-> "record", record |-> "rec"]
    ELSE [kind |-> "error", error |-> "parse"]

\* lines 202-212 of extract_intents_gemini
extract_intents_parse(t) ==
  LET a == IF t # <<>> /\ Head(t) = "fence" THEN PyStrip(t, "fence") ELSE t
      b == IF a # <<>> /\ Head(a) = "json" THEN PyStrip(Tail(a), "ws") ELSE a
  IN json_loads(b)

\* lines 333-341 of generate_llm_answer
generate_llm_parse(t) ==
  LET a == IF t # <<>> /\ Head(t) = "fence" THEN PyStrip(t, "fence") ELSE t
      b == IF a # <<>> /\ Head(a) = "json" THEN PyStrip(Tail(a), "ws") ELSE a
  IN json_loads(b)

ParseIntents ==
  /\ clsParsed = NoValue
  /\ clsParsed' = extract_intents_parse(text)
  /\ UNCHANGED <<resVars, envVars, thrVars, runVars, fnVars, authVars, rateVars, sessVars, audioVars, text, genParsed>>

ParseAnswer ==
  /\ genParsed = NoValue
  /\ genParsed' = generate_llm_parse(text)
  /\ UNCHANGED <<resVars, envVars, thrVars, runVars, fnVars, authVars, rateVars, sessVars, audioVars, text, clsParsed>>

InitParse ==
  /\ PipelineOff
  /\ InitAuthOff
  /\ text \in Texts
  /\ clsParsed = NoValue
  /\ genParsed = NoValue
  /\ InitRate
  /\ InitSess
  /\ InitAudio

NextParse == ParseIntents \/ ParseAnswer

SpecParse == InitParse /\ [][NextParse]_vars

(* ------------------------------ RateLimiter --------------------------- *)

\* the list comprehension of lines 171-174: the timestamps younger than the window
RECURSIVE Recent(_, _)
Recent(h, cur) ==
  IF h = <<>> THEN <<>>
  ELSE IF cur - Head(h) < RLWindow
         THEN <<Head(h)>> \o Recent(Tail(h), cur)
         ELSE Recent(Tail(h), cur)

\* a thread calls is_allowed(session_id)
RL_Call(t) ==
  /\ rlPc[t] = "idle"
  /\ \E s \in Sessions : rlSid' = [rlSid EXCEPT ![t] = s]
  /\ rlPc' = [rlPc EXCEPT ![t] = "lock"]
  /\ rlRet' = [rlRet EXCEPT ![t] = None]
  /\ UNCHANGED <<now, history, rlLock, rlNow, grants, maxReq, seen, rlRem>>

\* the mutant of RL_Acquire: the body runs without the lock
RL_Acquire_NoLock(t) ==
  /\ rlPc[t] = "lock"
  /\ rlPc' = [rlPc EXCEPT ![t] = "prune"]
  /\ UNCHANGED <<now, history, rlLock, rlSid, rlNow, rlRet, grants, maxReq, seen, rlRem>>

\* with self._lock
RL_Acquire(t) ==
  /\ rlPc[t] = "lock"
  /\ rlLock = 0
  /\ rlLock' = t
  /\ rlPc' = [rlPc EXCEPT ![t] = "prune"]
  /\ UNCHANGED <<now, history, rlSid, rlNow, rlRet, grants, maxReq, seen, rlRem>>

\* lines 164-174: current_time = datetime.now(), the history of a new session
\* is created, the old timestamps are removed
RL_Prune(t) ==
  /\ rlPc[t] = "prune"
  /\ rlNow' = [rlNow EXCEPT ![t] = now]
  /\ seen' = seen \cup {rlSid[t]}
  /\ history' = [history EXCEPT ![rlSid[t]] = Recent(@, now)]
  /\ rlPc' = [rlPc EXCEPT ![t] = "check"]
  /\ UNCHANGED <<now, rlLock, rlSid, rlRet, grants, maxReq, rlRem>>

\* lines 177-182: return False at the limit, else record current_time and
\* return True; the lock is released
RL_Check(t) ==
  /\ rlPc[t] = "check"
  /\ IF Len(history[rlSid[t]]) >= maxReq
       THEN /\ rlRet' = [rlRet EXCEPT ![t] = "False"]
            /\ UNCHANGED <<history, grants>>
       ELSE /\ history' = [history EXCEPT ![rlSid[t]] = Append(@, rlNow[t])]
            /\ grants' = [grants EXCEPT ![rlSid[t]][rlNow[t]] = @ + 1]
            /\ rlRet' = [rlRet EXCEPT ![t] = "True"]
  /\ rlLock' = 0
  /\ rlNow' = [rlNow EXCEPT ![t] = 0]
  /\ rlPc' = [rlPc EXCEPT ![t] = "idle"]
  /\ UNCHANGED <<now, rlSid, maxReq, seen, rlRem>>

\* time passes
Tick ==
  /\ now < MaxTime
  /\ now' = now + 1
  /\ UNCHANGED <<history, rlLock, rlPc, rlSid, rlNow, rlRet, grants, maxReq, seen, rlRem>>

is_allowed(t) == RL_Call(t) \/ RL_Acquire(t) \/ RL_Prune(t) \/ RL_Check(t)

InitRateSpec ==
  /\ PipelineOff
  /\ InitAuthOff
  /\ InitTextOff
  /\ InitRate
  /\ InitSess
  /\ InitAudio

NextRate ==
  /\ (Tick \/ \E t \in Threads : is_allowed(t))
  /\ UNCHANGED <<resVars, envVars, thrVars, runVars, fnVars, authVars, textVars, sessVars, audioVars>>

SpecRate == InitRateSpec /\ [][NextRate]_vars

\* Python's max(0, n)
Max0(n) == IF n > 0 THEN n ELSE 0

\* the mutant of get_remaining_requests: the old timestamps are counted too
get_remaining_requests_Unfiltered(s, cur) ==
  IF s \notin seen THEN maxReq
  ELSE Max0(maxReq - Len(history[s]))

\* lines 187-196, with current_time = cur
get_remaining_requests(s, cur) ==
  IF s \notin seen THEN maxReq
  ELSE Max0(maxReq - Len(Recent(history[s], cur)))

\* a thread calls get_remaining_requests(session_id)
Rem_Call(t) ==
  /\ rlPc[t] = "idle"
  /\ \E s \in Sessions : rlSid' = [rlSid EXCEPT ![t] = s]
  /\ rlPc' = [rlPc EXCEPT ![t] = "rem_lock"]
  /\ rlRet' = [rlRet EXCEPT ![t] = None]
  /\ rlRem' = [rlRem EXCEPT ![t] = 0]
  /\ UNCHANGED <<now, history, rlLock, rlNow, grants, maxReq, seen>>

\* with self._lock
Rem_Acquire(t) ==
  /\ rlPc[t] = "rem_lock"
  /\ rlLock = 0
  /\ rlLock' = t
  /\ rlPc' = [rlPc EXCEPT ![t] = "rem_body"]
  /\ UNCHANGED <<now, history, rlSid, rlNow, rlRet, grants, maxReq, seen, rlRem>>

\* lines 187-196; the lock is released
Rem_Body(t) ==
  /\ rlPc[t] = "rem_body"
  /\ rlRem' = [rlRem EXCEPT ![t] = get_remaining_requests(rlSid[t], now)]
  /\ rlLock' = 0
  /\ rlPc' = [rlPc EXCEPT ![t] = "idle"]
  /\ UNCHANGED <<now, history, rlSid, rlNow, rlRet, grants, maxReq, seen>>

remaining(t) == Rem_Call(t) \/ Rem_Acquire(t) \/ Rem_Body(t)

\* a limiter of any max_requests from 0 on
InitRemainSpec ==
  /\ PipelineOff
  /\ InitAuthOff
  /\ InitTextOff
  /\ \E m \in 0..RLMax : InitLimiter(m)
  /\ InitSess
  /\ InitAudio

NextRemain ==
  /\ (Tick \/ \E t \in Threads : is_allowed(t) \/ remaining(t))
  /\ UNCHANGED <<resVars, envVars, thrVars, runVars, fnVars, authVars, textVars, sessVars, audioVars>>

SpecRemain == InitRemainSpec /\ [][NextRemain]_vars

(* ----------------------------- SessionManager -------------------------- *)

\* the methods threads call
Methods == {"create_session", "get_session", "update_session", "delete_session",
            "cleanup_expired_sessions"}

\* the data of update_session: with the key 'request_count' (its value is 0),
\* or with none or other keys, which leave last_active and request_count alone
Datas == {"other", "request_count"}

\* lines 66 and 98
Expired(s) == store[s].present /\ now - store[s].last_active > SessTimeout

\* with self._lock left, the call returns r
SM_Return(t, r) ==
  /\ smLock' = 0
  /\ smPc' = [smPc EXCEPT ![t] = "idle"]
  /\ smRet' = [smRet EXCEPT ![t] = r]
  /\ smCall' = [smCall EXCEPT ![t] = NoCall]

\* a thread calls a method
SM_Call(t) ==
  /\ smPc[t] = "idle"
  /\ \E m \in Methods : \E s \in Sessions : \E d \in Datas :
       /\ m = "update_session" => applied[s] < MaxCount
       /\ m # "update_session" => d = "other"
       /\ smCall' = [smCall EXCEPT ![t] =
            [op |-> m, sid |-> IF m = "cleanup_expired_sessions" THEN None ELSE s, data |-> d]]
  /\ smPc' = [smPc EXCEPT ![t] = "lock"]
  /\ smRet' = [smRet EXCEPT ![t] = [kind |-> "idle"]]
  /\ UNCHANGED <<store, smLock, smTmp, applied, overwritten, lapsed>>

\* the mutant of SM_Acquire: the body runs without the lock
SM_Acquire_NoLock(t) ==
  /\ smPc[t] = "lock"
  /\ smPc' = [smPc EXCEPT ![t] = "body"]
  /\ UNCHANGED <<store, smLock, smCall, smTmp, smRet, applied, overwritten, lapsed>>

\* with self._lock
SM_Acquire(t) ==
  /\ smPc[t] = "lock"
  /\ smLock = 0
  /\ smLock' = t
  /\ smPc' = [smPc EXCEPT ![t] = "body"]
  /\ UNCHANGED <<store, smCall, smTmp, smRet, applied, overwritten, lapsed>>

\* create_session, lines 47-55
SM_Create(t) ==
  /\ smPc[t] = "body" /\ smCall[t].op = "create_session"
  /\ LET s == smCall[t].sid IN
       /\ store' = [store EXCEPT ![s] =
            [present |-> TRUE, last_active |-> now, request_count |-> 0]]
       /\ applied' = [applied EXCEPT ![s] = 0]
       /\ overwritten' = [overwritten EXCEPT ![s] = FALSE]
       /\ lapsed' = [lapsed EXCEPT ![s] = FALSE]
       /\ SM_Return(t, [kind |-> "id", id |-> s])
  /\ UNCHANGED smTmp

\* the mutant of SM_Get: an expired session is not returned, and is kept
SM_Get_KeepExpired(t) ==
  /\ smPc[t] = "body" /\ smCall[t].op = "get_session"
  /\ LET s == smCall[t].sid IN
       /\ SM_Return(t, IF store[s].present /\ ~Expired(s)
                          THEN [kind |-> "session", id |-> s]
                          ELSE [kind |-> "None"])
       /\ lapsed' = [lapsed EXCEPT ![s] = @ \/ Expired(s)]
  /\ UNCHANGED <<store, smTmp, applied, overwritten>>

\* get_session, lines 59-70
SM_Get(t) ==
  /\ smPc[t] = "body" /\ smCall[t].op = "get_session"
  /\ LET s == smCall[t].sid IN
       IF ~store[s].present
         THEN /\ SM_Return(t, [kind |-> "None"])
              /\ UNCHANGED <<store, applied, overwritten, lapsed>>
       ELSE IF Expired(s)
         THEN /\ store' = [store EXCEPT ![s] = Absent]
              /\ applied' = [applied EXCEPT ![s] = 0]
              /\ overwritten' = [overwritten EXCEPT ![s] = FALSE]
              /\ lapsed' = [lapsed EXCEPT ![s] = TRUE]
              /\ SM_Return(t, [kind |-> "None"])
         ELSE /\ SM_Return(t, [kind |-> "session", id |-> s])
              /\ UNCHANGED <<store, applied, overwritten, lapsed>>
  /\ UNCHANGED smTmp

\* update_session, lines 74-77: nothing for an id not in the store; else
\* last_active is set and request_count is read
SM_UpdateRead(t) ==
  /\ smPc[t] = "body" /\ smCall[t].op = "update_session"
  /\ LET s == smCall[t].sid IN
       IF ~store[s].present
         THEN /\ SM_Return(t, [kind |-> "None"])
              /\ UNCHANGED <<store, smTmp>>
         ELSE /\ store' = [store EXCEPT ![s].last_active = now]
              /\ smTmp' = [smTmp EXCEPT ![t] = store[s].request_count]
              /\ smPc' = [smPc EXCEPT ![t] = "write"]
              /\ UNCHANGED <<smLock, smRet, smCall>>
  /\ UNCHANGED <<applied, overwritten, lapsed>>

\* update_session, lines 77-84: request_count is written and the data merged;
\* the write to an entry that is gone raises KeyError
SM_UpdateWrite(t) ==
  /\ smPc[t] = "write"
  /\ LET s == smCall[t].sid
         d == smCall[t].data IN
       IF ~store[s].present
         THEN /\ SM_Return(t, [kind |-> "KeyError"])
              /\ UNCHANGED <<store, applied, overwritten>>
         ELSE /\ store' = [store EXCEPT ![s].request_count =
                   IF d = "request_count" THEN 0 ELSE smTmp[t] + 1]
              /\ applied' = [applied EXCEPT ![s] = @ + 1]
              /\ overwritten' = [overwritten EXCEPT ![s] = @ \/ d = "request_count"]
              /\ SM_Return(t, [kind |-> "None"])
  /\ smTmp' = [smTmp EXCEPT ![t] = 0]
  /\ UNCHANGED lapsed

\* delete_session, lines 88-90
SM_Delete(t) ==
  /\ smPc[t] = "body" /\ smCall[t].op = "delete_session"
  /\ LET s == smCall[t].sid IN
       IF store[s].present
         THEN /\ store' = [store EXCEPT ![s] = Absent]
              /\ applied' = [applied EXCEPT ![s] = 0]
              /\ overwritten' = [overwritten EXCEPT ![s] = FALSE]
         ELSE UNCHANGED <<store, applied, overwritten>>
  /\ SM_Return(t, [kind |-> "None"])
  /\ UNCHANGED <<smTmp, lapsed>>

\* cleanup_expired_sessions, lines 94-104
SM_Cleanup(t) ==
  /\ smPc[t] = "body" /\ smCall[t].op = "cleanup_expired_sessions"
  /\ LET expired == {s \in Sessions : Expired(s)} IN
       /\ store' = [s \in Sessions |-> IF s \in expired THEN Absent ELSE store[s]]
       /\ applied' = [s \in Sessions |-> IF s \in expired THEN 0 ELSE applied[s]]
       /\ overwritten' = [s \in Sessions |-> IF s \in expired THEN FALSE ELSE overwritten[s]]
       /\ SM_Return(t, [kind |-> "int", n |-> Cardinality(expired)])
  /\ UNCHANGED <<smTmp, lapsed>>

SessionCall(t) ==
  \/ SM_Call(t)
  \/ SM_Acquire(t)
  \/ SM_Create(t)
  \/ SM_Get(t)
  \/ SM_UpdateRead(t)
  \/ SM_UpdateWrite(t)
  \/ SM_Delete(t)
  \/ SM_Cleanup(t)

InitSessSpec ==
  /\ PipelineOff
  /\ InitAuthOff
  /\ InitTextOff
  /\ InitRate
  /\ InitSess
  /\ InitAudio

NextSess ==
  /\ \/ Tick /\ UNCHANGED sessVars
     \/ \E t \in Threads : SessionCall(t) /\ UNCHANGED rateVars
  /\ UNCHANGED <<resVars, envVars, thrVars, runVars, fnVars, authVars, textVars, audioVars>>

SpecSess == InitSessSpec /\ [][NextSess]_vars

(* ------------------------------- get_audio ---------------------------- *)

\* what requests.get gives: a status, or it raises (timeout, connection error)
Upstream == {"200", "404", "503", "raises"}

\* a request for a verse arrives
AU_Start(t) ==
  /\ auPc[t] = "idle"
  /\ \E v \in Verses :
       /\ auVerse' = [auVerse EXCEPT ![t] = v]
       /\ auLate' = [auLate EXCEPT ![t] = fetched[v]]
  /\ auPc' = [auPc EXCEPT ![t] = "check"]
  /\ auResp' = [auResp EXCEPT ![t] = "none"]
  /\ auOff' = [auOff EXCEPT ![t] = 0]
  /\ auOut' = [auOut EXCEPT ![t] = [status |-> 0]]
  /\ auUp' = [auUp EXCEPT ![t] = FALSE]
  /\ UNCHANGED <<audioCache, fetched>>

\* the mutant of AU_Check: the cache file is not looked for
AU_Check_AlwaysFetch(t) ==
  /\ auPc[t] = "check"
  /\ auPc' = [auPc EXCEPT ![t] = "get"]
  /\ UNCHANGED <<audioCache, auVerse, auResp, auOff, auOut, auUp, auLate, fetched>>

\* line 78: os.path.exists(cache_file_path)
AU_Check(t) ==
  /\ auPc[t] = "check"
  /\ auPc' = [auPc EXCEPT ![t] = IF audioCache[auVerse[t]] # NoFile THEN "serve" ELSE "get"]
  /\ UNCHANGED <<audioCache, auVerse, auResp, auOff, auOut, auUp, auLate, fetched>>

\* line 79: send_file reads the cache file
AU_Serve(t) ==
  /\ auPc[t] = "serve"
  /\ auOut' = [auOut EXCEPT ![t] =
       [status |-> 200, from |-> "cache", body |-> audioCache[auVerse[t]]]]
  /\ auPc' = [auPc EXCEPT ![t] = "idle"]
  /\ UNCHANGED <<audioCache, auVerse, auResp, auOff, auUp, auLate, fetched>>

\* lines 83-94 and 107-112: requests.get; 404 is answered with 404, another
\* error status (raise_for_status) or a raised RequestException with 500
AU_Get(t) ==
  /\ auPc[t] = "get"
  /\ auUp' = [auUp EXCEPT ![t] = TRUE]
  /\ \E r \in Upstream :
       /\ auResp' = [auResp EXCEPT ![t] = r]
       /\ IF r = "200"
            THEN /\ auPc' = [auPc EXCEPT ![t] = "open"]
                 /\ UNCHANGED auOut
            ELSE /\ auPc' = [auPc EXCEPT ![t] = "idle"]
                 /\ auOut' = [auOut EXCEPT ![t] = [status |-> IF r = "404" THEN 404 ELSE 500]]
  /\ UNCHANGED <<audioCache, auVerse, auOff, auLate, fetched>>

\* lines 96-97: makedirs and open(cache_file_path, 'wb'): the file exists and is empty
AU_Open(t) ==
  /\ auPc[t] = "open"
  /\ audioCache' = [audioCache EXCEPT ![auVerse[t]] = {}]
  /\ auPc' = [auPc EXCEPT ![t] = "write"]
  /\ UNCHANGED <<auVerse, auResp, auOff, auOut, auUp, auLate, fetched>>

\* line 98: f.write(response.content) puts the next chunk at the position
\* of this file object; after the last one the file is closed
AU_Write(t) ==
  /\ auPc[t] = "write"
  /\ audioCache' = [audioCache EXCEPT ![auVerse[t]] = (@ \ NoFile) \cup {auOff[t] + 1}]
  /\ auOff' = [auOff EXCEPT ![t] = @ + 1]
  /\ auPc' = [auPc EXCEPT ![t] = IF auOff[t] + 1 = AudioLen THEN "send" ELSE "write"]
  /\ UNCHANGED <<auVerse, auResp, auOut, auUp, auLate, fetched>>

\* lines 100-105: send_file(BytesIO(response.content))
AU_Send(t) ==
  /\ auPc[t] = "send"
  /\ auOut' = [auOut EXCEPT ![t] = [status |-> 200, from |-> "upstream", body |-> Audio]]
  /\ fetched' = [fetched EXCEPT ![auVerse[t]] = TRUE]
  /\ auPc' = [auPc EXCEPT ![t] = "idle"]
  /\ UNCHANGED <<audioCache, auVerse, auResp, auOff, auUp, auLate>>

get_audio(t) ==
  \/ AU_Start(t)
  \/ AU_Check(t)
  \/ AU_Serve(t)
  \/ AU_Get(t)
  \/ AU_Open(t)
  \/ AU_Write(t)
  \/ AU_Send(t)

InitAudioSpec ==
  /\ PipelineOff
  /\ InitAuthOff
  /\ InitTextOff
  /\ InitRate
  /\ InitSess
  /\ InitAudio

NextAudio ==
  /\ \E t \in Threads : get_audio(t)
  /\ UNCHANGED <<resVars, envVars, thrVars, runVars, fnVars, authVars, textVars, rateVars, sessVars>>

SpecAudio == InitAudioSpec /\ [][NextAudio]_vars

(* ------------------------------- properties ---------------------------- *)

Ended(t) == pc[t] = "done"
Returned(t) == outcome[t].kind = "return"
Raised(t) == outcome[t].kind = "raise"
ContainsOther(L) == \E i \in 1..Len(L) : L[i].intent = "other_question"
IsFetch(x) == x.intent = "fetch_by_location"
IsSearch(x) == x.intent = "semantic_search"

\* C1: every run that has ended, in whichever terminal state, has called the
\* logger exactly once, with the request, the intents, the success flag and
\* the elapsed time; a retrieval failure is logged with the intent list.
\* (Stated for the runs that end by returning an envelope; the runs that end
\* by an exception are the subject of C8.)
C1_LoggedExactlyOnce ==
  \A t \in Threads :
    (Ended(t) /\ Returned(t)) =>
       /\ Len(logs[t]) = 1
       /\ logs[t][1].user_query = query[t]
       /\ logs[t][1].intents_list = intents[t]
       /\ logs[t][1].success = (stage[t] = "Done")

\* C2: a run whose classified intent list holds an other_question intent, at
\* any position, makes no coordinate lookup, no vector search and no
\* generation call, and ends with the fixed rejection envelope.
C2_OtherQuestionRejects ==
  \A t \in Threads :
    (stage[t] \notin {None, "Start"} /\ ContainsOther(intents[t])) =>
       /\ lookups[t] = 0
       /\ searches[t] = 0
       /\ genCalls[t] = 0
       /\ pc[t] \notin {"new_check", "search_run", "assemble", "generate", "finish"}
       /\ Ended(t) =>
            /\ stage[t] = "Rejected"
            /\ outcome[t] = [kind |-> "return",
                             envelope |->
                               [Message |-> "Sorry, I can only answer questions related to the Rig Veda.",
                                error |-> "unrelated question"]]

\* a rejected run whose other_question intent comes second, after a
\* fetch_by_location intent
C2_Witness ==
  /\ Ended(Runner)
  /\ Len(intents[Runner]) = 2
  /\ IsFetch(intents[Runner][1])
  /\ intents[Runner][2].intent = "other_question"
  /\ stage[Runner] = "Rejected"

\* the first fetch_by_location intent of L that does not resolve, 0 if all do
FirstFailedFetch(L) ==
  LET bad == { i \in 1..Len(L) :
                 /\ IsFetch(L[i])
                 /\ sloka_search(L[i].mandala, L[i].hymn, L[i].sloka).kind # "items" }
  IN IF bad = {} THEN 0 ELSE CHOOSE i \in bad : \A j \in bad : i <= j

C4_LoadedExactlyOnce ==
  /\ loadCount <= 1
  /\ initialized => (loadCount = 1 /\ \A t \in Threads : pc[t] # "load")
  /\ \A t \in Threads : ctorRes[t] = "ok" => (initialized /\ loadCount = 1)
  /\ Cardinality({ t \in Threads : pc[t] = "load" }) <= 1

\* two first callers passed the unlocked check together: one has loaded and
\* returned, the other holds the lock and is about to make the confirming check
C4_Witness ==
  \E t1, t2 \in Threads :
    /\ t1 # t2
    /\ calls[t1] = 1 /\ calls[t2] = 1
    /\ ctorRes[t1] = "ok" /\ pc[t1] = "idle"
    /\ pc[t2] = "init_locked"
    /\ initialized /\ loadCount = 1

\* C5: once a load has failed, the resource stays failed: no load is started
\* again and the resource never becomes initialized.
C5_FailedStaysFailed ==
  [][loadFailures > 0 => (loadAttempts' = loadAttempts /\ ~initialized')]_vars

\* C6: after initialization the index size equals the mapping length, and no
\* run ends with the IndexError of an out-of-range mapping lookup.
C6_IndexMatchesMapping ==
  /\ initialized => resIndex = resMap
  /\ \A t \in Threads : ~(Raised(t) /\ outcome[t].exc = "IndexError")

\* C7 (as claimed): the evidence list follows intent-list order, whatever
\* the kinds of the intents: the positions of the intents the items came
\* from never decrease along the list.
C7_EvidenceInIntentOrder ==
  \A t \in Threads :
    \A a, b \in 1..Len(origin[t]) :
      a < b => origin[t][a] <= origin[t][b]

\* C7 (amended): the evidence of the fetch_by_location intents comes first,
\* in intent-list order, and the evidence of the semantic_search intents
\* follows, in intent-list order.
C7_EvidenceInKindThenIntentOrder ==
  \A t \in Threads :
    /\ Len(origin[t]) = Len(evidence[t])
    /\ \A a, b \in 1..Len(origin[t]) :
         a < b =>
           LET ia == intents[t][origin[t][a]]
               ib == intents[t][origin[t][b]]
           IN /\ ~(IsSearch(ia) /\ IsFetch(ib))
              /\ (ia.intent = ib.intent) => origin[t][a] <= origin[t][b]

\* a successful run over a semantic_search intent followed by a
\* fetch_by_location intent: the record fetched for the second intent comes
\* before the item found for the first
C7_Witness ==
  /\ stage[Runner] = "Done"
  /\ Len(intents[Runner]) = 2
  /\ IsSearch(intents[Runner][1]) /\ IsFetch(intents[Runner][2])
  /\ Len(origin[Runner]) >= 2
  /\ origin[Runner][1] = 2
  /\ origin[Runner][2] = 1

\* C8: no failure leaves get_answer as an exception: every run that has ended
\* returned an envelope, and a failure envelope carries Message and error.
C8_NoExceptionEscapes ==
  \A t \in Threads :
    Ended(t) =>
      /\ Returned(t)
      /\ stage[t] # "Done" => {"Message", "error"} \subseteq DOMAIN outcome[t].envelope

\* C9 (as claimed): every envelope get_answer returns has the one shape of
\* the success envelope, the error field being optional.
C9_OneEnvelopeShape ==
  \A t \in Threads :
    Returned(t) =>
      DOMAIN outcome[t].envelope \ {"error"} = {"Message", "intents", "slokas", "answer"}

\* C9 (amended): get_answer returns envelopes of two shapes, which share the
\* Message field: a success carries exactly Message, intents, slokas and
\* answer; a failure carries exactly Message and error.
C9_TwoEnvelopeShapes ==
  \A t \in Threads :
    Returned(t) =>
      IF stage[t] = "Done"
        THEN /\ DOMAIN outcome[t].envelope = {"Message", "intents", "slokas", "answer"}
             /\ outcome[t].envelope.Message = "Success"
        ELSE /\ stage[t] \in {"Failed", "Rejected"}
             /\ DOMAIN outcome[t].envelope = {"Message", "error"}
             /\ outcome[t].envelope.Message # "Success"

\* a run that failed in the generation call and returned the failure envelope
C9_Witness ==
  /\ Ended(Runner)
  /\ Returned(Runner)
  /\ genCalls[Runner] = 1
  /\ stage[Runner] = "Failed"

StageEdges ==
  { <<None, "Start">>, <<"Start", "Classified">>, <<"Classified", "Rejected">>,
    <<"Classified", "Retrieved">>, <<"Retrieved", "Assembled">>,
    <<"Assembled", "Generated">>, <<"Generated", "Done">> }
    \cup { <<s, "Failed">> : s \in {"Start", "Classified", "Retrieved", "Assembled", "Generated"} }

C11_ClassificationErrorTerminal ==
  \A t \in Threads :
    clsReply[t].kind = "error" =>
      /\ Ended(t)
      /\ stage[t] = "Failed"
      /\ outcome[t] = [kind |-> "return",
                       envelope |-> [Message |-> "Error in intent extraction",
                                     error |-> clsReply[t].error]]
      /\ intents[t] = <<>> /\ evidence[t] = <<>>
      /\ lookups[t] = 0 /\ searches[t] = 0 /\ genCalls[t] = 0
      /\ Len(logs[t]) = 1
      /\ logs[t][1].final_context = [kind |-> "empty"]
      /\ logs[t][1].success = FALSE

\* a run whose classification call answered with text that does not parse
C11_Witness ==
  /\ clsReply[Runner].kind = "error"
  /\ clsReply[Runner].error = "parse"
  /\ clsCalls[Runner] = 1
  /\ Ended(Runner)

\* C12: a run calls the generation service at most once for classification
\* and at most once for the answer; after a failed call the run has ended
\* (classification) or ends without another call (generation).
C12_AtMostOneCallEach ==
  \A t \in Threads :
    /\ clsCalls[t] <= 1
    /\ genCalls[t] <= 1
    /\ clsReply[t].kind = "error" => Ended(t)
    /\ answer[t].kind = "error" => (genCalls[t] = 1 /\ pc[t] \in {"finish", "done"})

\* a run that ended after a failed generation call, with one call of each kind
C12_Witness ==
  /\ Ended(Runner)
  /\ answer[Runner].kind = "error"
  /\ clsCalls[Runner] = 1
  /\ genCalls[Runner] = 1

\* C15: a run with the empty query ends as a failure with the error
\* "Empty query", without any call to the generation service.
C15_EmptyQueryNoCall ==
  \A t \in Threads :
    (query[t] = "" /\ stage[t] # "Start") =>
      /\ Ended(t)
      /\ stage[t] = "Failed"
      /\ clsCalls[t] = 0 /\ genCalls[t] = 0
      /\ clsReply[t] = [kind |-> "none"]
      /\ outcome[t] = [kind |-> "return",
                       envelope |-> [Message |-> "Error in intent extraction",
                                     error |-> "Empty query"]]

\* a run with the empty query that has ended
C15_Witness ==
  /\ query[Runner] = ""
  /\ Ended(Runner)
  /\ Returned(Runner)

\* C13: a neighbor of a vector search whose coordinate is invalid or whose
\* record is missing is skipped and never makes the request fail: no run that
\* has made a vector search ends with the NotFound of a record lookup.
C13_UnresolvableNeighborSkipped ==
  \A t \in Threads :
    searches[t] > 0 => ~(Raised(t) /\ outcome[t].exc = "NotFound")

\* the field of a coordinate that fails the bounds table first, None if none does
OffendingField(c) ==
  IF c[1] \notin IndexMandalas THEN "mandala"
  ELSE IF c[2] \notin IndexHymns(c[1]) THEN "hymn"
  ELSE IF ~(1 <= c[3] /\ c[3] <= TotalSlokas(c[1], c[2])) THEN "sloka"
  ELSE None

\* C14 (as claimed): a coordinate within the bounds table resolves to exactly
\* one evidence item; a coordinate outside it resolves to a validation error
\* that names the one offending field.
C14_OneItemOrOffendingField ==
  result # NoValue =>
    IF OffendingField(arg) = None
      THEN result.kind = "items" /\ Len(result.items) = 1
      ELSE /\ result.kind = "error"
           /\ "field" \in DOMAIN result
           /\ result.field = OffendingField(arg)

\* C14 (amended): a coordinate within the bounds table whose record is stored
\* resolves to exactly one evidence item, that record; within the bounds
\* without a stored record the lookup raises NotFound; a coordinate outside
\* the bounds resolves to one validation error that carries the whole triple,
\* the same whichever field offends.
C14_OneItemNotFoundOrTripleError ==
  result # NoValue =>
    CASE OffendingField(arg) # None ->
           result = [kind |-> "error",
                     error |-> <<"Invalid mandala, hymn, or sloka number",
                                 arg[1], arg[2], arg[3]>>]
      [] OffendingField(arg) = None /\ arg[3] \in StoredStanzas(arg[1], arg[2]) ->
           result = [kind |-> "items",
                     items |-> <<[location |-> arg,
                                  sanskrit |-> <<"sanskrit", arg[1], arg[2], arg[3]>>,
                                  meaning |-> <<"translation", arg[1], arg[2], arg[3]>>]>>]
      [] OTHER -> result = [kind |-> "raise", exc |-> "NotFound"]

\* the coordinate (1, 1, 3), within the bounds and without a record, resolved
C14_Witness ==
  /\ arg = <<1, 1, 3>>
  /\ result.kind = "raise"

\* C16 (as claimed): with no API key configured no call to the generation
\* service is made, the answer generator gives its fixed fallback message, and
\* the run returns a failure envelope and is not logged as a success.
C16_GeneratorShortCircuits ==
  \A t \in Threads :
    (~apiKey /\ Ended(t) /\ query[t] # "") =>
      /\ clsCalls[t] = 0 /\ genCalls[t] = 0
      /\ answer[t] = [kind |-> "text", text |-> "Sorry, I cannot provide an answer at this time."]
      /\ Returned(t)
      /\ outcome[t].envelope.Message # "Success"
      /\ \A k \in 1..Len(logs[t]) : ~logs[t][k].success

\* C16 (amended): with no API key configured no call to the generation
\* service is made and the answer generator is never reached: the run ends in
\* the classification step, never as a success and never logged as one; when
\* it returns for a non-empty query, it returns the failure envelope with the
\* error "Gemini API key or prompt not set."; the one other end is the
\* exception of an unreadable classification prompt file.
C16_ClassifierShortCircuits ==
  \A t \in Threads :
    ~apiKey =>
      /\ clsCalls[t] = 0 /\ genCalls[t] = 0
      /\ clsReply[t] = [kind |-> "none"]
      /\ answer[t] = [kind |-> "none"]
      /\ stage[t] \in {None, "Start", "Failed"}
      /\ \A k \in 1..Len(logs[t]) : ~logs[t][k].success
      /\ (Ended(t) /\ query[t] # "") =>
           \/ outcome[t] = [kind |-> "return",
                            envelope |-> [Message |-> "Error in intent extraction",
                                          error |-> "Gemini API key or prompt not set."]]
           \/ outcome[t] = [kind |-> "raise", exc |-> "FileNotFoundError"]

\* a run without API key that returned the configuration error for a query
C16_Witness ==
  /\ ~apiKey
  /\ query[Runner] = "q"
  /\ Ended(Runner)
  /\ Returned(Runner)
  /\ outcome[Runner].envelope.error = "Gemini API key or prompt not set."
  /\ Len(logs[Runner]) = 1

AskPositions(L) == { i \in 1..Len(L) : L[i].intent = "asking_question" }

\* C18: the assembled context is the serialized intent list, then one
\* "sanskrit - meaning" line per evidence item in evidence order, then the
\* question block with the texts of all asking_question intents if and only
\* if there is such an intent; without evidence and without asking_question
\* intent it is the intent serialization alone.
C18_ContextTemplate ==
  \A t \in Threads :
    context[t].kind = "full" =>
      LET c == context[t].text
          ev == evidence[t]
          L == intents[t]
          asks == AskPositions(L)
          n == 1 + Len(ev)
      IN /\ Len(c) = n + (IF asks # {} THEN 1 ELSE 0)
         /\ c[1].part = "intents"
         /\ c[1].body = L
         /\ \A k \in 1..Len(ev) :
              /\ c[1 + k].part = "line"
              /\ c[1 + k].body = <<ev[k].sanskrit, ev[k].meaning>>
         /\ asks # {} =>
              /\ c[n + 1].part = "questions"
              /\ Len(c[n + 1].body) = Cardinality(asks)
              /\ \A p \in asks :
                   c[n + 1].body[Cardinality({ a \in asks : a <= p })] = L[p].question
         /\ (ev = <<>> /\ asks = {}) => Len(c) = 1

\* a context of three parts: the intents, the line of the record fetched for
\* the first intent, the question of the second
C18_Witness ==
  /\ context[Runner].kind = "full"
  /\ intents[Runner] = <<FetchIntent(1, 1, 1), AskIntent("q1")>>
  /\ Len(context[Runner].text) = 3
  /\ context[Runner].text[3].part = "questions"

\* the number of evidence items that came from the intent at position i
Contribution(t, i) == Cardinality({ k \in 1..Len(origin[t]) : origin[t][k] = i })

\* C19: a semantic_search intent contributes at most k = 2 evidence items, a
\* fetch_by_location intent at most one and, once retrieval is complete,
\* exactly one, any other intent none; the evidence list is no longer than
\* (number of fetch_by_location intents) + 2 * (number of semantic_search intents).
C19_EvidenceBound ==
  \A t \in Threads :
    LET L == intents[t]
        fetches == { i \in 1..Len(L) : IsFetch(L[i]) }
        found == { i \in 1..Len(L) : IsSearch(L[i]) }
    IN /\ Len(evidence[t]) = Len(origin[t])
       /\ \A k \in 1..Len(origin[t]) : origin[t][k] \in fetches \cup found
       /\ \A i \in fetches : Contribution(t, i) <= 1
       /\ \A i \in found : Contribution(t, i) <= 2
       /\ context[t].kind = "full" => \A i \in fetches : Contribution(t, i) = 1
       /\ Len(evidence[t]) <= Cardinality(fetches) + 2 * Cardinality(found)

\* an assembled run whose evidence reaches the bound: one record fetched, two
\* found by the vector search
C19_Witness ==
  /\ context[Runner].kind = "full"
  /\ Len(intents[Runner]) = 2
  /\ \E i, j \in 1..2 : IsFetch(intents[Runner][i]) /\ IsSearch(intents[Runner][j])
  /\ Len(evidence[Runner]) = 3

\* C20: the lock is taken for first-time initialization only.  Once the
\* resource is initialized it stays initialized and the loaded model, index
\* and mapping never change; a constructor call that begins, or makes one of
\* its unlocked checks, with the resource initialized returns without going
\* for the lock; the lock is only ever taken at the two with-statements of
\* the constructor, which such a call does not reach.
C20_LockOnlyForFirstInit ==
  [][/\ initialized =>
          /\ initialized' /\ instance /\ hasAttr
          /\ resModel' = resModel /\ resIndex' = resIndex /\ resMap' = resMap
          /\ loadCount' = loadCount
     /\ \A t \in Threads :
          /\ (initialized /\ pc[t] \in {"idle", "new_check", "init_check"}) =>
               /\ pc'[t] \in {"idle", "new_check", "init_check"}
               /\ lock' # t
          /\ (lock' = t /\ lock # t) =>
               pc[t] \in {"new_lock", "init_lock"}]_vars

\* the resource was loaded once; one caller has made two constructor calls,
\* both returned normally, and another is at the unlocked check of a call of
\* its own, the lock being free
C20_Witness ==
  \E t, u \in Threads :
    /\ t # u
    /\ initialized /\ loadAttempts = 1 /\ loadCount = 1
    /\ calls[u] = 2 /\ ctorRes[u] = "ok" /\ pc[u] = "idle"
    /\ pc[t] = "init_check"
    /\ lock = 0

\* the four intent variants get_answer acts on
KnownTags == {"fetch_by_location", "semantic_search", "asking_question", "other_question"}
HasUnknownTag(L) == \E i \in 1..Len(L) : L[i].intent \notin KnownTags

\* C23: a run whose classified intent list holds an intent with a tag outside
\* the four known variants is rejected as a classification error: it never
\* goes on to retrieval, context assembly or generation.
C23_UnknownTagRejected ==
  \A t \in Threads :
    HasUnknownTag(intents[t]) =>
      /\ stage[t] \notin {"Retrieved", "Assembled", "Generated", "Done"}
      /\ genCalls[t] = 0

NeighborCoord(k) == MapEntry(PyIndex(resMap, neighbors[k]))

\* C27: the evidence items of one semantic_search intent come in the order in
\* which the index returned the neighbors (nearest first): they are the
\* records of neighbors k1 < k2 < ..., a skipped neighbor leaving the order of
\* the others as it was.
C27_NeighborOrderKept ==
  \A t \in Threads :
    \A a, b \in 1..Len(evidence[t]) :
      ( /\ a < b
        /\ origin[t][a] = origin[t][b]
        /\ IsSearch(intents[t][origin[t][a]]) ) =>
        \E ka, kb \in 1..Len(neighbors) :
          /\ ka < kb
          /\ evidence[t][a].location = NeighborCoord(ka)
          /\ evidence[t][b].location = NeighborCoord(kb)

\* a search whose nearest neighbor is mapping entry 1 and whose second is
\* entry 0 gave the record of entry 1 before the record of entry 0
C27_Witness ==
  /\ neighbors = <<1, 0>>
  /\ intents[Runner] = <<SearchIntent("agni")>>
  /\ Len(evidence[Runner]) = 2
  /\ evidence[Runner][1].location = <<1, 1, 2>>
  /\ evidence[Runner][2].location = <<1, 1, 1>>

\* C22: a run that has started runs to completion: as long as every call it
\* makes returns, it reaches a terminal state (Done, Rejected or Failed); a run
\* leaves its course only by ending, and an ended run stays ended.
C22_RunsToCompletion ==
  /\ (stage[Runner] = "Start") ~> Ended(Runner)
  /\ [](\A t \in Threads : Ended(t) => stage[t] \in {"Done", "Rejected", "Failed"})
  /\ [][\A t \in Threads : Ended(t) => Ended(t)']_vars

\* a run that went from Start to Done through the generation call alone,
\* its intent list being empty
C22_Witness ==
  /\ Ended(Runner)
  /\ stage[Runner] = "Done"
  /\ intents[Runner] = <<>>
  /\ genCalls[Runner] = 1

\* what a run holds: the locals of get_answer, what it gave and what it logged
RunState(t) ==
  <<pc[t], stage[t], query[t], intents[t], cursor[t], evidence[t], origin[t],
    context[t], answer[t], outcome[t], logs[t],
    clsCalls[t], clsReply[t], genCalls[t], lookups[t], searches[t]>>

\* C21: a generation call that is slow, fails or never returns holds back the
\* run that made it and no other: a run served by another thread reaches its
\* terminal state whether or not that call ever returns; no thread holds the
\* lock while it is in a classification or generation call; a step changes
\* the state of one run at most.
C21_StallIsLocal ==
  /\ (stage[Runner] = "Start") ~> Ended(Runner)
  /\ [](\A t \in Threads : pc[t] \in {"classify", "generate"} => lock # t)
  /\ [][\A t, u \in Threads :
          (t # u /\ RunState(t)' # RunState(t)) => RunState(u)' = RunState(u)]_vars

\* the serving thread's run has ended with its own generation call made while
\* the other request's call has still not returned
C21_Witness ==
  /\ pc[Staller] = "generate"
  /\ genCalls[Staller] = 0
  /\ Ended(Runner)
  /\ genCalls[Runner] = 1

\* C25: the wrapped handler runs only when a server key is configured and the
\* X-API-Key header equals it; in every other case the handler is not called
\* and the response is 500 when no server key is configured, else 401 when
\* the header is missing, else 403.
C25_HandlerBehindKey ==
  LET configured == srvKey # "None" /\ srvKey # ""
      sent == hdrKey # "None" /\ hdrKey # ""
  IN /\ invoked => (configured /\ hdrKey = srvKey)
     /\ reqPc = "sent" =>
          /\ invoked <=> (configured /\ hdrKey = srvKey)
          /\ ~invoked =>
               resp = IF ~configured THEN 500 ELSE IF ~sent THEN 401 ELSE 403

\* a request without header to a server without key was answered 500, the
\* first of the checks
C25_Witness ==
  /\ reqPc = "sent"
  /\ srvKey = "None"
  /\ hdrKey = "None"
  /\ resp = 500
  /\ ~invoked

\* the forms in which the service may send the record: bare, in a code
\* fence, in a code fence with the json tag, with or without newlines inside
\* the fence, and each fenced form with a blank or newline after the closing fence
FencedForms ==
  LET fenced == { <<"fence", "rec", "fence">>,
                  <<"fence", "ws", "rec", "ws", "fence">>,
                  <<"fence", "json", "rec", "fence">>,
                  <<"fence", "json", "ws", "rec", "ws", "fence">> }
  IN {<<"rec">>} \cup fenced \cup { f \o <<"ws">> : f \in fenced }

\* C26: the classifier and the answer generator parse the record, the record
\* in a code fence, and the record in a code fence with the json tag to the
\* same record, also when a blank or a newline follows the closing fence.
C26_FencedParsesSame ==
  text \in FencedForms =>
    /\ clsParsed # NoValue => clsParsed = [kind |-> "record", record |-> "rec"]
    /\ genParsed # NoValue => genParsed = [kind |-> "record", record |-> "rec"]

\* the calls for session s that returned True with a current_time in a..b
RECURSIVE GrantedIn(_, _, _)
GrantedIn(s, a, b) ==
  IF a > b THEN 0
  ELSE (IF a \in 0..MaxTime THEN grants[s][a] ELSE 0) + GrantedIn(s, a + 1, b)

\* C28: for every session, in every interval of time_window ticks
\* [a, a + time_window) at most max_requests calls of is_allowed returned
\* True, whatever the interleaving of the callers; a call that returns False
\* leaves the recorded timestamps as they were, and a call that returns True
\* records exactly its own.
C28_RateBound ==
  /\ [](\A s \in Sessions : \A a \in 0..MaxTime :
          GrantedIn(s, a, a + RLWindow - 1) <= RLMax)
  /\ [][\A t \in Threads :
          (rlPc[t] = "check" /\ rlPc'[t] = "idle") =>
            IF rlRet'[t] = "False"
              THEN history' = history /\ grants' = grants
              ELSE /\ history'[rlSid[t]] = Append(history[rlSid[t]], rlNow[t])
                   /\ \A s \in Sessions \ {rlSid[t]} : history'[s] = history[s]]_vars

\* session s1 was allowed max_requests calls at time 0, denied one more, and
\* allowed again once the window had passed
C28_Witness ==
  /\ grants["s1"][0] = RLMax
  /\ now >= RLWindow
  /\ grants["s1"][now] > 0
  /\ \E t \in Threads : rlRet[t] = "False" /\ rlSid[t] = "s1" /\ rlPc[t] = "idle"

\* a call of get_session by t returns in this step
GetReturns(t) ==
  smPc[t] = "body" /\ smCall[t].op = "get_session" /\ smPc'[t] = "idle"

\* C29: get_session returns a session exactly when the id is in the store
\* with now - last_active <= session_timeout, and then it is the stored entry;
\* for an expired session it removes the entry and returns None; an id that
\* get_session found expired is not in the store, and get_session returns
\* None for it, until create_session is called for it; no other method puts
\* an id into the store.
C29_ExpiredStaysGone ==
  /\ [][\A t \in Threads : GetReturns(t) =>
          LET s == smCall[t].sid
              fresh == store[s].present /\ now - store[s].last_active <= SessTimeout IN
            /\ (smRet'[t].kind = "session") <=> fresh
            /\ fresh => smRet'[t].id = s /\ store' = store
            /\ ~fresh => smRet'[t] = [kind |-> "None"] /\ ~store'[s].present
            /\ \A o \in Sessions \ {s} : store'[o] = store[o]]_vars
  /\ [](\A s \in Sessions : lapsed[s] => ~store[s].present)
  /\ [][\A s \in Sessions : (~store[s].present /\ store'[s].present) =>
          \E t \in Threads : /\ smCall[t] = [op |-> "create_session", sid |-> s, data |-> "other"]
                             /\ smPc[t] = "body" /\ smPc'[t] = "idle"]_vars

\* get_session found s1 expired and returned None, while s2, created
\* later, is returned by the other thread's get_session
C29_Witness ==
  /\ lapsed["s1"] /\ ~store["s1"].present
  /\ store["s2"].present
  /\ \E t, u \in Threads :
       /\ smPc[t] = "idle" /\ smRet[t] = [kind |-> "None"]
       /\ smPc[u] = "idle" /\ smRet[u] = [kind |-> "session", id |-> "s2"]

\* a call of update_session or delete_session by t leaves its body in this step
TouchReturns(t) ==
  /\ smPc[t] = "body" /\ smPc'[t] # "body"
  /\ smCall[t].op \in {"update_session", "delete_session"}

\* C30, as stated: the request_count of every stored session equals the
\* number of update_session calls applied to it since it was last created.
C30_CountIsApplied ==
  \A s \in Sessions : store[s].present => store[s].request_count = applied[s]

\* C30: under every interleaving of the five methods, the request_count of
\* a stored session equals the number of update_session calls applied to it
\* since it was last created, as long as none of these calls carried the key
\* 'request_count' in its data; update_session and delete_session for an id
\* that is not in the store change nothing.
C30_NoLostUpdate ==
  /\ [](\A s \in Sessions :
          (store[s].present /\ ~overwritten[s]) => store[s].request_count = applied[s])
  /\ [][\A t \in Threads :
          (TouchReturns(t) /\ ~store[smCall[t].sid].present) =>
             store' = store /\ smPc'[t] = "idle"]_vars

\* s1 has had as many update_session calls applied as there are threads,
\* its request_count says so, and a get_session for it waits for the lock
\* that a delete_session for it holds
C30_Witness ==
  /\ store["s1"].present /\ ~overwritten["s1"]
  /\ applied["s1"] = NThreads /\ store["s1"].request_count = NThreads
  /\ \E t, u \in Threads :
       /\ smCall[t].op = "get_session" /\ smCall[t].sid = "s1" /\ smPc[t] = "lock"
       /\ smCall[u].op = "delete_session" /\ smCall[u].sid = "s1" /\ smPc[u] = "body"

\* C31: a request that finds the cache file makes no upstream request and
\* is served from the file; the cache changes only in the steps of a request
\* whose upstream fetch succeeded, so a 404, an error status or a transport
\* error leaves it as it was; and a request for a verse that begins after a
\* fetch of that verse was cached and served makes no upstream request.
C31_CacheFrame ==
  /\ [][\A t \in Threads :
          (auPc[t] = "check" /\ audioCache[auVerse[t]] # NoFile /\ auPc'[t] # "check") =>
             auPc'[t] = "serve" /\ auUp'[t] = FALSE]_vars
  /\ [](\A t \in Threads :
          /\ auPc[t] = "serve" => ~auUp[t]
          /\ (auPc[t] = "idle" /\ auOut[t].status = 200 /\ ~auUp[t]) => auOut[t].from = "cache"
          /\ auLate[t] => ~auUp[t])
  /\ [][\A v \in Verses : audioCache'[v] # audioCache[v] =>
          \E t \in Threads : /\ auVerse[t] = v /\ auResp[t] = "200"
                             /\ auPc[t] \in {"open", "write"}]_vars
  /\ [][\A t \in Threads :
          (auPc[t] = "get" /\ auResp'[t] # "200" /\ auPc'[t] # "get") =>
             /\ audioCache' = audioCache
             /\ auPc'[t] = "idle"
             /\ auOut'[t].status = (IF auResp'[t] = "404" THEN 404 ELSE 500)]_vars

\* v1 was fetched and cached by one request; a later request for it is
\* served from the cache without an upstream request, while a request for
\* v2 got a 404 and v2 has no cache file
C31_Witness ==
  /\ fetched["v1"] /\ audioCache["v1"] = Audio /\ audioCache["v2"] = NoFile
  /\ \E t, u \in Threads :
       /\ auVerse[t] = "v1" /\ auLate[t] /\ auPc[t] = "idle" /\ ~auUp[t]
       /\ auOut[t] = [status |-> 200, from |-> "cache", body |-> Audio]
       /\ auVerse[u] = "v2" /\ auPc[u] = "idle" /\ auOut[u] = [status |-> 404]

\* C33: a response served from the cache file carries the complete audio
\* that was fetched upstream.
C33_CacheServedComplete ==
  \A t \in Threads :
    (auPc[t] = "idle" /\ auOut[t].status = 200 /\ auOut[t].from = "cache") =>
       auOut[t].body = Audio

\* C32: a thread that is about to read self._initialized in __init__ has an
\* instance whose _initialized attribute has been set, and no constructor
\* call ends in an AttributeError.
C32_FlagSetBeforeObtained ==
  \A t \in Threads :
    /\ pc[t] = "init_check" => hasAttr
    /\ ctorRes[t] # "AttributeError"

\* the neighbors that are positions of the mapping
ValidNeighbors == { k \in 1..Len(neighbors) : 0 <= neighbors[k] /\ neighbors[k] < resMap }

\* C34: every evidence item of a semantic_search intent is the record of a
\* mapping position p with 0 <= p < len(slokas_list) that the index returned,
\* and there are no more of them than such positions: a neighbor outside
\* the range, the -1 sentinel included, produces no item.
C34_ResultsFromValidPositions ==
  \A t \in Threads : \A i \in 1..Len(intents[t]) :
    IsSearch(intents[t][i]) =>
      /\ Contribution(t, i) <= Cardinality(ValidNeighbors)
      /\ \A k \in 1..Len(origin[t]) : origin[t][k] = i =>
           \E n \in ValidNeighbors : evidence[t][k].location = MapEntry(neighbors[n])

\* the with-blocks of the constructor: a thread at one of these holds the lock
InsideLock == {"new_locked", "new_setflag", "init_locked", "load"}

\* C35: a load that raises leaves its with-block: the lock is free after the
\* step and _initialized is false; the lock is only ever held by a thread
\* that is inside one of the with-blocks; and a constructor call that waits
\* for the lock after a load has failed gets past it.
C35_FailedLoadFreesLock ==
  /\ [][\A t \in Threads :
          (pc[t] = "load" /\ ctorRes'[t] = "LoadError") =>
             lock' = 0 /\ ~initialized' /\ pc'[t] = ret[t]]_vars
  /\ [](lock # 0 => (lock \in Threads /\ pc[lock] \in InsideLock))
  /\ \A t \in Threads :
       (loadFailures > 0 /\ pc[t] \in {"new_lock", "init_lock"}) ~>
          pc[t] \notin {"new_lock", "init_lock"}

\* a load has failed, and a later constructor call, which found the lock
\* free, loaded the resource and returned normally
C35_Witness ==
  /\ loadFailures > 0 /\ initialized /\ lock = 0
  /\ \E t, u \in Threads :
       /\ t # u
       /\ ctorRes[t] = "LoadError" /\ pc[t] = "idle"
       /\ ctorRes[u] = "ok" /\ pc[u] = "idle"

\* what is_allowed(s) returns when it reads the clock now (lines 164-178)
AllowedNow(s) ==
  Len(SelectSeq(history[s], LAMBDA ts : now - ts < RLWindow)) < maxReq

\* C36: for every session and at every instant, what get_remaining_requests
\* returns is greater than 0 exactly when is_allowed, called at that
\* instant, would return True; every call of get_remaining_requests
\* returns such a value, and no call of it changes the history.
C36_RemainingIffAllowed ==
  /\ [](\A s \in Sessions : (get_remaining_requests(s, now) > 0) <=> AllowedNow(s))
  /\ [][\A t \in Threads :
          (rlPc[t] = "rem_body" /\ rlPc'[t] = "idle") =>
             /\ (rlRem'[t] > 0) <=> AllowedNow(rlSid[t])
             /\ history' = history /\ seen' = seen]_vars

\* s1 is at the limit and get_remaining_requests returned 0 for it, while
\* the other thread was told that s2, never seen, has max_requests left
C36_Witness ==
  /\ maxReq = RLMax
  /\ "s1" \in seen /\ "s2" \notin seen
  /\ Len(history["s1"]) = RLMax /\ ~AllowedNow("s1")
  /\ \E t, u \in Threads :
       /\ rlSid[t] = "s1" /\ rlPc[t] = "idle" /\ rlRet[t] = None /\ rlRem[t] = 0
       /\ rlSid[u] = "s2" /\ rlPc[u] = "idle" /\ rlRem[u] = RLMax

\* the envelope that the data of a logged run call for
EnvelopeOfRun(t) ==
  LET rec == logs[t][1] IN
    IF rec.success
      THEN [Message |-> "Success", intents |-> intents[t], slokas |-> evidence[t],
            answer |-> answer[t]]
    ELSE IF rec.generated_answer.kind = "error"
      THEN [Message |-> "Error in generating answer", error |-> answer[t].error]
    ELSE IF rec.final_context.kind = "intent_only"
      THEN [Message |-> "Sorry, I can only answer questions related to the Rig Veda.",
            error |-> "unrelated question"]
    ELSE [Message |-> "Error in intent extraction", error |-> outcome[t].envelope.error]

\* C37: a run that made its log call returned, and returned the envelope
\* that its intents, evidence and answer call for, whether the sink accepted
\* the record, answered with an error status, or could not be reached; the
\* step of the log call is the step that returns.
C37_LogFailureHarmless ==
  /\ [](\A t \in Threads : logs[t] # <<>> =>
          /\ Len(logs[t]) = 1
          /\ Returned(t)
          /\ outcome[t].envelope = EnvelopeOfRun(t))
  /\ [][\A t \in Threads : logs'[t] # logs[t] => (pc'[t] = "done" /\ Returned(t)')]_vars

\* a run whose log record could not be delivered returned the Success envelope
C37_Witness ==
  /\ logs[Runner] # <<>>
  /\ logs[Runner][1].delivery = "raises"
  /\ logs[Runner][1].success
  /\ Returned(Runner)
  /\ outcome[Runner].envelope.Message = "Success"
  /\ stage[Runner] = "Done"

====
